---- MODULE Spec2Model ----
(***************************************************************************)
(* Credit-application lifecycle of the HBUS AI credit manager.             *)
(*                                                                         *)
(* The model follows the Express route handlers of the credit router       *)
(* (src/server/routes/auth.js, second module, lines 402-1019), the AI      *)
(* router (src/unnamed/part_001) and the middleware of                     *)
(* src/server/middleware/auth.js.  One action models one whole request:    *)
(* the middleware chain, the handler body and the final save().            *)
(*                                                                         *)
(* The Mongoose models (models/CreditApplication.js, models/User.js) are   *)
(* known through their callers and through the type declarations of        *)
(* src/unnamed/part_003 only; addAuditEntry, hasPermission, the schema     *)
(* validation run by save() and the pre-save step that dates a terminal   *)
(* status follow the specification.                                        *)
(*                                                                         *)
(* Specifications:                                                         *)
(*   Spec           requests served one at a time, store available         *)
(*   SpecOutage     the same handlers with a store that may refuse writes  *)
(*   SpecConcurrent two requests on one application, interleaved at the    *)
(*                  read and the write                                     *)
(*   SpecFunctions  getDefaultPermissions, preprocessFeatures, the two     *)
(*                  scoring engines and the fraud rules applied to         *)
(*                  bounded inputs                                         *)
(*   SpecLogin      login requests for one account, interleaved at their   *)
(*                  awaits                                                 *)
(*   SpecMiddleware the authentication middleware applied to requests      *)
(*                  with and without tokens, over two stored accounts      *)
(*   SpecLimiter    requests through the rate limiter of the sensitive     *)
(*                  routes while the clock advances                        *)
(*   SpecLimiterLive  the same, with a clock that keeps advancing          *)
(*   SpecEngine     initializeModel, predictCreditScore and dispose of     *)
(*                  an engine of either class, in any order                *)
(*   SpecBatch      single and batch analysis over two stored              *)
(*                  applications, with scoring and saving that may fail    *)
(*                  per application                                        *)
(***************************************************************************)
EXTENDS Integers, Sequences, FiniteSets, TLC

\* ------------------------------------------------------------------------
\* Bounds of the model
\* ------------------------------------------------------------------------

\* Last value of the clock read by `new Date()`.  The clock starts at 1 and
\* advances with every write to the store, so at most MaxTime - 1 writes are
\* explored in one run.
MaxTime == 3

\* ------------------------------------------------------------------------
\* Domain
\* ------------------------------------------------------------------------

\* status union of the CreditApplication declaration.
Statuses ==
    {"draft", "submitted", "under_review", "pending_documents",
     "approved", "denied", "withdrawn"}

\* Request-supplied status strings: the seven legal ones and one that is not.
BodyStatuses == Statuses \cup {"bogus"}

\* Marker of a key that a request body does not carry.
Absent == "absent"

\* role union of the User declaration.
Roles == {"admin", "underwriter", "analyst", "viewer"}

\* The registered users that send requests, each named after its role and
\* holding the default grants of that role.
Actors == {"underwriter", "analyst", "viewer"}

\* Storage identifiers addressed by the :id route parameter.
AppIds == {"app1"}

\* Marker of a date field that is not set.
NoDate == 0

NoUser == "nobody"

\* Marker of an applicationId that is not assigned.
NoId == "noid"

\* The applicationId the model gives a new application, and the one a
\* request body may carry.
GeneratedId == "APP1"

BodyId == "APP2"

\* aiAssessment of an application that was never analysed.
NoAssessment == [processedBy |-> NoUser]

\* ------------------------------------------------------------------------
\* Permission model
\* ------------------------------------------------------------------------

\* getDefaultPermissions in which the underwriter set is the analyst set
\* plus approve.
getDefaultPermissions_Inherited(role) ==
    CASE role = "admin" ->
           [applications |-> {"create", "read", "update", "delete", "approve"},
            users        |-> {"create", "read", "update", "delete"},
            reports      |-> {"create", "read", "update", "delete"},
            settings     |-> {"read", "update"}]
      [] role = "underwriter" ->
           [applications |-> {"create", "read", "update", "approve"},
            users        |-> {},
            reports      |-> {"read"},
            settings     |-> {}]
      [] role = "analyst" ->
           [applications |-> {"create", "read", "update"},
            users        |-> {},
            reports      |-> {"read"},
            settings     |-> {}]
      [] OTHER ->
           [applications |-> {"read"},
            users        |-> {},
            reports      |-> {"read"},
            settings     |-> {}]

\* getDefaultPermissions(role): the grant list as resource -> action set.
getDefaultPermissions(role) ==
    CASE role = "admin" ->
           [applications |-> {"create", "read", "update", "delete", "approve"},
            users        |-> {"create", "read", "update", "delete"},
            reports      |-> {"create", "read", "update", "delete"},
            settings     |-> {"read", "update"}]
      [] role = "underwriter" ->
           [applications |-> {"read", "update", "approve"},
            users        |-> {},
            reports      |-> {"read"},
            settings     |-> {}]
      [] role = "analyst" ->
           [applications |-> {"create", "read", "update"},
            users        |-> {},
            reports      |-> {"read"},
            settings     |-> {}]
      [] OTHER ->
           [applications |-> {"read"},
            users        |-> {},
            reports      |-> {"read"},
            settings     |-> {}]

\* POST /register stores getDefaultPermissions(role) on the new user.
permissions(u) == getDefaultPermissions(u)

role(u) == u

\* User.hasPermission(resource, action): a grant matches when the resource is
\* equal and the action is in the grant's action set.
hasPermission(u, resource, action) ==
    /\ resource \in DOMAIN permissions(u)
    /\ action \in permissions(u)[resource]

\* checkPermission that calls next() for every authenticated actor.
checkPermission_Open(u, resource, action) == TRUE

\* checkPermission that looks for a grant on the resource only.
checkPermission_AnyAction(u, resource, action) ==
    /\ resource \in DOMAIN permissions(u)
    /\ permissions(u)[resource] # {}

\* checkPermission(resource, action): next() is called iff hasPermission.
checkPermission(u, resource, action) == hasPermission(u, resource, action)

\* authorize that tests the update grant instead of the role.
authorize_ByPermission(u, roles) == hasPermission(u, "applications", "update")

\* authorize(...roles): next() is called iff the actor's role is listed.
authorize(u, roles) == role(u) \in roles

\* ------------------------------------------------------------------------
\* State
\* ------------------------------------------------------------------------

VARIABLES
    apps,           \* stored CreditApplication documents, by storage id
    isModelLoaded,  \* aiEngine.isModelLoaded
    now,            \* the clock read by `new Date()`
    res,            \* the operation performed last: its name, the actor, the
                    \* application addressed and the HTTP status answered
    storageUp,      \* whether the store accepts the write of save()
    inflight,       \* requests that loaded a document and did not save yet
    call,           \* the function applied last, its input and its result
    attempts,       \* the Map of sensitiveRateLimit: key -> timestamps
    admitted,       \* per key, the times at which the limiter called next()
    users,          \* stored User documents, by username
    aiEngine        \* the scoring engine object: its class and its model field

vars == <<apps, isModelLoaded, now, res, storageUp, inflight, call,
          attempts, admitted, users, aiEngine>>

\* The state of the auth router and of its limiter.
auth == <<attempts, admitted, users>>

\* The part of the state that the route handlers never write.
env == <<storageUp, inflight, call, auth, aiEngine>>

\* A slot of the collection that holds no document yet.
NoApp ==
    [exists       |-> FALSE,
     status       |-> "draft",
     loanAmount   |-> 0,
     submittedAt  |-> NoDate,
     assignedTo   |-> NoUser,
     assignedAt   |-> NoDate,
     reviewNotes  |-> 0,
     documents    |-> 0,
     aiAssessment |-> NoAssessment,
     auditTrail   |-> <<>>,
     applicationId |-> NoId,
     completedAt  |-> NoDate]

\* CreditApplication.addAuditEntry(action, user, details, req): pure append.
addAuditEntry(doc, action, u) ==
    [doc EXCEPT !.auditTrail =
        Append(@, [action |-> action, performedBy |-> u])]

\* Schema validation run by save(): status must be a member of the enum.
validate(doc) == doc.status \in Statuses

\* Marker of a request that addresses no stored application.
NoTarget == "none"

\* No request is in flight.
NoRequests == <<>>

\* No function was applied yet.
NoCall == [fn |-> "none"]

\* Keys of the limiter Map: req.ip followed by the id of the actor.
\* The engine object after the constructor of the given class: the model
\* field is null.  The first class of the file builds a network in
\* initializeModel, the second (demo) class never assigns the field.
NewEngine(class) == [class |-> class, model |-> "null"]

\* The engine of the AI router: the class that the module exports last.
DemoEngine == NewEngine("demo")

Keys == {"ip1user1", "ip2user2"}

\* Usernames of the registered accounts.
Accounts == {"user1"}

\* A User document as created by registration.
NewUser ==
    [loginAttempts |-> 0, locked |-> FALSE, isActive |-> TRUE,
     lastLogin |-> NoDate]

\* The auth state when the server starts: an empty Map and the registered
\* accounts.
InitAuth ==
    /\ attempts = [k \in Keys |-> <<>>]
    /\ admitted = [k \in Keys |-> <<>>]
    /\ users = [n \in Accounts |-> NewUser]

Response(op, u, a, code) == [op |-> op, actor |-> u, app |-> a, code |-> code]

\* res.status(code).json(...) on a path that does not write to the store.
Respond(op, u, a, code) ==
    /\ res' = Response(op, u, a, code)
    /\ UNCHANGED <<apps, isModelLoaded, now, env>>

\* The pre-save step of the CreditApplication model: a document that has a
\* terminal status and no completedAt yet gets completedAt = t.
preSave(doc, t) ==
    IF doc.status \in {"approved", "denied", "withdrawn"}
          /\ doc.completedAt = NoDate
    THEN [doc EXCEPT !.completedAt = t]
    ELSE doc

\* application.save() followed by the success response; a document that
\* fails validation, or a write that the store refuses, leaves the stored
\* document as it was and the error handler answers 500.
Save(op, u, a, doc, okCode) ==
    IF validate(doc) /\ storageUp
    THEN /\ now < MaxTime
         /\ apps' = [apps EXCEPT ![a] = preSave(doc, now)]
         /\ res' = Response(op, u, a, okCode)
         /\ now' = now + 1
         /\ UNCHANGED <<isModelLoaded, env>>
    ELSE Respond(op, u, a, 500)

Init ==
    /\ apps = [a \in AppIds |-> NoApp]
    /\ isModelLoaded = FALSE
    /\ aiEngine = DemoEngine
    /\ now = 1
    /\ res = Response("none", NoUser, NoTarget, 0)
    /\ storageUp = TRUE
    /\ inflight = NoRequests
    /\ call = NoCall
    /\ InitAuth

\* ------------------------------------------------------------------------
\* POST /api/credit/applications
\* ------------------------------------------------------------------------

\* Bodies of a creation request: whether the nine required fields are all
\* present, the loan amount, and an optional status key.
CreateBodies ==
    [complete : {TRUE}, loanAmount : {1}, status : BodyStatuses \cup {Absent}]
    \cup
    [complete : {FALSE}, loanAmount : {1}, status : {Absent}]

CreateApplication(u, a, body) ==
    IF ~checkPermission(u, "applications", "create")
    THEN Respond("create", u, NoTarget, 403)
    ELSE IF ~body.complete
    THEN Respond("create", u, NoTarget, 400)
    ELSE /\ ~apps[a].exists
         /\ LET fresh == [NoApp EXCEPT
                            !.exists = TRUE,
                            !.applicationId = GeneratedId,
                            !.loanAmount = body.loanAmount,
                            !.status = IF body.status = Absent
                                       THEN "draft" ELSE body.status]
                doc == addAuditEntry(fresh, "application_created", u)
            IN Save("create", u, a, doc, 201)

\* ------------------------------------------------------------------------
\* PUT /api/credit/applications/:id
\* ------------------------------------------------------------------------

\* Bodies of an update request over the keys status, auditTrail, loan
\* amount (0: key not present) and applicationId: the empty body, the bodies
\* with one key, and the bodies that carry a status together with an audit
\* trail.
UpdateBodies ==
    [status : BodyStatuses \cup {Absent},
     hasAuditTrail : {FALSE},
     auditTrail : {<<>>},
     loanAmount : {0},
     applicationId : {Absent}]
    \cup
    [status : {Absent, "approved"},
     hasAuditTrail : {TRUE},
     auditTrail : {<<>>},
     loanAmount : {0},
     applicationId : {Absent}]
    \cup
    [status : {Absent},
     hasAuditTrail : {FALSE},
     auditTrail : {<<>>},
     loanAmount : {2},
     applicationId : {Absent}]
    \cup
    [status : {Absent},
     hasAuditTrail : {FALSE},
     auditTrail : {<<>>},
     loanAmount : {0},
     applicationId : {BodyId}]

\* Object.assign(application, req.body)
ObjectAssign(doc, body) ==
    [doc EXCEPT
        !.status = IF body.status = Absent THEN @ ELSE body.status,
        !.auditTrail = IF body.hasAuditTrail THEN body.auditTrail ELSE @,
        !.loanAmount = IF body.loanAmount = 0 THEN @ ELSE body.loanAmount,
        !.applicationId = IF body.applicationId = Absent
                          THEN @ ELSE body.applicationId]

\* The update handler without the check for finalized applications.
UpdateApplication_NoFinalCheck(u, a, body) ==
    IF ~checkPermission(u, "applications", "update")
    THEN Respond("update", u, a, 403)
    ELSE IF ~apps[a].exists
    THEN Respond("update", u, a, 404)
    ELSE LET assigned == ObjectAssign(apps[a], body)
             doc == addAuditEntry(assigned, "application_updated", u)
         IN Save("update", u, a, doc, 200)

UpdateApplication(u, a, body) ==
    IF ~checkPermission(u, "applications", "update")
    THEN Respond("update", u, a, 403)
    ELSE IF ~apps[a].exists
    THEN Respond("update", u, a, 404)
    ELSE IF apps[a].status \in {"approved", "denied"}
    THEN Respond("update", u, a, 400)
    ELSE LET assigned == ObjectAssign(apps[a], body)
             doc == addAuditEntry(assigned, "application_updated", u)
         IN Save("update", u, a, doc, 200)

\* ------------------------------------------------------------------------
\* POST /api/credit/applications/:id/submit
\* ------------------------------------------------------------------------

\* The submit handler without the check for the draft status.
SubmitApplication_AnyStatus(u, a) ==
    IF ~checkPermission(u, "applications", "update")
    THEN Respond("submit", u, a, 403)
    ELSE IF ~apps[a].exists
    THEN Respond("submit", u, a, 404)
    ELSE LET changed == [apps[a] EXCEPT !.status = "submitted",
                                        !.submittedAt = now]
             doc == addAuditEntry(changed, "application_submitted", u)
         IN Save("submit", u, a, doc, 200)

\* The submit handler that saves before it adds the audit entry.
SubmitApplication_AuditAfterSave(u, a) ==
    IF ~checkPermission(u, "applications", "update")
    THEN Respond("submit", u, a, 403)
    ELSE IF ~apps[a].exists
    THEN Respond("submit", u, a, 404)
    ELSE IF apps[a].status # "draft"
    THEN Respond("submit", u, a, 400)
    ELSE LET changed == [apps[a] EXCEPT !.status = "submitted",
                                        !.submittedAt = now]
         IN Save("submit", u, a, changed, 200)

SubmitApplication(u, a) ==
    IF ~checkPermission(u, "applications", "update")
    THEN Respond("submit", u, a, 403)
    ELSE IF ~apps[a].exists
    THEN Respond("submit", u, a, 404)
    ELSE IF apps[a].status # "draft"
    THEN Respond("submit", u, a, 400)
    ELSE LET changed == [apps[a] EXCEPT !.status = "submitted",
                                        !.submittedAt = now]
             doc == addAuditEntry(changed, "application_submitted", u)
         IN Save("submit", u, a, doc, 200)

\* ------------------------------------------------------------------------
\* POST /api/credit/applications/:id/documents
\* ------------------------------------------------------------------------

\* Numbers of files carried by an upload request.
FileCounts == 0..2

UploadDocuments(u, a, files) ==
    IF ~checkPermission(u, "applications", "update")
    THEN Respond("documents", u, a, 403)
    ELSE IF ~apps[a].exists
    THEN Respond("documents", u, a, 404)
    ELSE IF files = 0
    THEN Respond("documents", u, a, 400)
    ELSE LET pushed == [apps[a] EXCEPT !.documents = @ + files]
             doc == addAuditEntry(pushed, "documents_uploaded", u)
         IN Save("documents", u, a, doc, 200)

\* ------------------------------------------------------------------------
\* POST /api/credit/applications/:id/assign
\* ------------------------------------------------------------------------

\* Values of assigneeId sent with an assignment.
Assignees == {"underwriter"}

AssignApplication(u, a, assigneeId) ==
    IF ~authorize(u, {"admin", "underwriter"})
    THEN Respond("assign", u, a, 403)
    ELSE IF ~apps[a].exists
    THEN Respond("assign", u, a, 404)
    ELSE LET changed == [apps[a] EXCEPT !.assignedTo = assigneeId,
                                        !.assignedAt = now,
                                        !.status = "under_review"]
             doc == addAuditEntry(changed, "application_assigned", u)
         IN Save("assign", u, a, doc, 200)

\* ------------------------------------------------------------------------
\* POST /api/credit/applications/:id/notes
\* ------------------------------------------------------------------------

AddNote(u, a, hasNote) ==
    IF ~checkPermission(u, "applications", "update")
    THEN Respond("notes", u, a, 403)
    ELSE IF ~hasNote
    THEN Respond("notes", u, a, 400)
    ELSE IF ~apps[a].exists
    THEN Respond("notes", u, a, 404)
    ELSE LET pushed == [apps[a] EXCEPT !.reviewNotes = @ + 1]
             doc == addAuditEntry(pushed, "review_note_added", u)
         IN Save("notes", u, a, doc, 201)

\* ------------------------------------------------------------------------
\* AI router: engine initialisation, POST /analyze, POST /batch-analyze
\* ------------------------------------------------------------------------

\* The module-load call of aiEngine.initializeModel().
initializeModel ==
    /\ ~isModelLoaded
    /\ isModelLoaded' = TRUE
    /\ aiEngine' = IF aiEngine.class = "tensorflow"
                   THEN [aiEngine EXCEPT !.model = "sequential"]
                   ELSE aiEngine
    /\ res' = Response("initializeModel", NoUser, NoTarget, 0)
    /\ UNCHANGED <<apps, now, storageUp, inflight, call, auth>>

\* fullAssessment as far as the lifecycle reads it: who processed it.
fullAssessment(u) == [processedBy |-> u]

\* Shapes of an analyze body: an applicationId, raw applicantData only, or
\* neither of the two.
AnalyzeBodies == {"applicationId", "applicantData", "empty"}

\* POST /analyze without the test of isModelLoaded.
Analyze_NoLoadedCheck(u, a, body) ==
    IF ~checkPermission(u, "applications", "read")
    THEN Respond("analyze", u,
                 IF body = "applicationId" THEN a ELSE NoTarget, 403)
    ELSE IF body = "empty"
    THEN Respond("analyze", u, NoTarget, 400)
    ELSE IF body = "applicationId" /\ ~apps[a].exists
    THEN Respond("analyze", u, a, 404)
    ELSE IF body = "applicantData"
    THEN Respond("analyze", u, NoTarget, 200)
    ELSE LET assessed == [apps[a] EXCEPT !.aiAssessment = fullAssessment(u)]
             doc == addAuditEntry(assessed, "ai_analysis_completed", u)
         IN Save("analyze", u, a, doc, 200)

Analyze(u, a, body) ==
    IF ~checkPermission(u, "applications", "read")
    THEN Respond("analyze", u,
                 IF body = "applicationId" THEN a ELSE NoTarget, 403)
    ELSE IF body = "empty"
    THEN Respond("analyze", u, NoTarget, 400)
    ELSE IF body = "applicationId" /\ ~apps[a].exists
    THEN Respond("analyze", u, a, 404)
    ELSE IF ~isModelLoaded
    THEN Respond("analyze", u,
                 IF body = "applicationId" THEN a ELSE NoTarget, 503)
    ELSE IF body = "applicantData"
    THEN Respond("analyze", u, NoTarget, 200)
    ELSE LET assessed == [apps[a] EXCEPT !.aiAssessment = fullAssessment(u)]
             doc == addAuditEntry(assessed, "ai_analysis_completed", u)
         IN Save("analyze", u, a, doc, 200)

\* Ways of selecting the applications of a batch.
BatchBodies == {"applicationIds", "filters", "empty"}

\* CreditApplication.find(...) of the batch route.
BatchSelection(body) ==
    IF body = "applicationIds"
    THEN {a \in AppIds : /\ apps[a].exists
                         /\ apps[a].status \in {"submitted", "under_review"}}
    ELSE {a \in AppIds : apps[a].exists /\ apps[a].status = "submitted"}

\* One iteration of the batch loop: predictCreditScore throws while the
\* engine is not loaded and the catch block leaves the document as stored.
BatchItem(u, a) ==
    IF ~isModelLoaded
    THEN apps[a]
    ELSE LET assessed == [apps[a] EXCEPT !.aiAssessment = fullAssessment(u)]
             doc == addAuditEntry(assessed, "ai_batch_analysis", u)
         IN IF validate(doc) /\ storageUp THEN doc ELSE apps[a]

BatchAnalyze(u, body) ==
    IF ~authorize(u, {"admin", "underwriter"})
    THEN Respond("batch", u, NoTarget, 403)
    ELSE IF body = "empty"
    THEN Respond("batch", u, NoTarget, 400)
    ELSE IF BatchSelection(body) = {}
    THEN Respond("batch", u, NoTarget, 404)
    ELSE IF \A a \in BatchSelection(body) : BatchItem(u, a) = apps[a]
    THEN Respond("batch", u, NoTarget, 200)
    ELSE /\ now < MaxTime
         /\ apps' = [a \in AppIds |->
                        IF a \in BatchSelection(body)
                        THEN preSave(BatchItem(u, a), now) ELSE apps[a]]
         /\ res' = Response("batch", u, NoTarget, 200)
         /\ now' = now + 1
         /\ UNCHANGED <<isModelLoaded, env>>

Next ==
    \/ \E u \in Actors, a \in AppIds, body \in CreateBodies :
          CreateApplication(u, a, body)
    \/ \E u \in Actors, a \in AppIds, body \in UpdateBodies :
          UpdateApplication(u, a, body)
    \/ \E u \in Actors, a \in AppIds :
          SubmitApplication(u, a)
    \/ \E u \in Actors, a \in AppIds, files \in FileCounts :
          UploadDocuments(u, a, files)
    \/ \E u \in Actors, a \in AppIds, assigneeId \in Assignees :
          AssignApplication(u, a, assigneeId)
    \/ \E u \in Actors, a \in AppIds, hasNote \in BOOLEAN :
          AddNote(u, a, hasNote)
    \/ initializeModel
    \/ \E u \in Actors, a \in AppIds, body \in AnalyzeBodies :
          Analyze(u, a, body)
    \/ \E u \in Actors, body \in BatchBodies :
          BatchAnalyze(u, body)

Spec == Init /\ [][Next]_vars

\* ------------------------------------------------------------------------
\* Store outages: save() rejects while the store is down, the asyncHandler
\* wrapper hands the error to the error handler (500) and the batch loop
\* catches it per item.
\* ------------------------------------------------------------------------

\* The requests of this specification are those that reach save(): sent by
\* actors with write grants, with complete bodies; an application may be
\* created as submitted so that the batch finds it.
OutageActors == {"underwriter", "analyst"}

OutageCreateBodies ==
    {body \in CreateBodies :
        body.complete /\ body.status \in {Absent, "submitted"}}

OutageUpdateBodies ==
    {body \in UpdateBodies : body.status \in {Absent, "withdrawn"}}

StorageFails ==
    /\ storageUp
    /\ storageUp' = FALSE
    /\ res' = Response("storage", NoUser, NoTarget, 0)
    /\ UNCHANGED <<apps, isModelLoaded, now, inflight, call, auth, aiEngine>>

StorageRecovers ==
    /\ ~storageUp
    /\ storageUp' = TRUE
    /\ res' = Response("storage", NoUser, NoTarget, 0)
    /\ UNCHANGED <<apps, isModelLoaded, now, inflight, call, auth, aiEngine>>

NextOutage ==
    \/ StorageFails
    \/ StorageRecovers
    \/ initializeModel
    \/ \E u \in OutageActors, a \in AppIds, body \in OutageCreateBodies :
          CreateApplication(u, a, body)
    \/ \E u \in OutageActors, a \in AppIds, body \in OutageUpdateBodies :
          UpdateApplication(u, a, body)
    \/ \E u \in OutageActors, a \in AppIds :
          SubmitApplication(u, a)
    \/ \E u \in OutageActors, a \in AppIds :
          UploadDocuments(u, a, 1)
    \/ \E u \in OutageActors, a \in AppIds, assigneeId \in Assignees :
          AssignApplication(u, a, assigneeId)
    \/ \E u \in OutageActors, a \in AppIds :
          AddNote(u, a, TRUE)
    \/ \E u \in OutageActors, a \in AppIds :
          Analyze(u, a, "applicationId")
    \/ \E u \in OutageActors :
          BatchAnalyze(u, "applicationIds")

SpecOutage == Init /\ [][NextOutage]_vars

\* ------------------------------------------------------------------------
\* Overlapping requests on one application
\*
\* A handler awaits findOne(), then checks and changes the loaded document
\* without yielding, then awaits save().  Two requests therefore interleave
\* at two points each: the read and the write.  No handler takes a lock or
\* compares a version.
\* ------------------------------------------------------------------------

\* The application that the overlapping requests address.
SharedApp == "app1"

\* The stored document when the requests arrive: a draft as created.
DraftApp ==
    addAuditEntry([NoApp EXCEPT !.exists = TRUE,
                                !.applicationId = GeneratedId,
                                !.loanAmount = 1],
                  "application_created", "analyst")

\* Body of the overlapping update request: a new loan amount.
AmountBody ==
    [status |-> Absent, hasAuditTrail |-> FALSE, auditTrail |-> <<>>,
     loanAmount |-> 2, applicationId |-> Absent]

\* The requests that may overlap.
Requests ==
    [op : {"submit", "assign", "update", "analyze"},
     actor : {"underwriter", "analyst"}]

\* The middleware chain in front of the handler of a request.
Allowed(req) ==
    CASE req.op = "assign" -> authorize(req.actor, {"admin", "underwriter"})
      [] req.op = "analyze" ->
            checkPermission(req.actor, "applications", "read")
      [] OTHER -> checkPermission(req.actor, "applications", "update")

\* The handler body between findOne() and save(), applied to the loaded
\* document: the status answered and the document in memory.
Handle(req, doc) ==
    CASE req.op = "submit" ->
            IF doc.status # "draft"
            THEN [code |-> 400, doc |-> doc]
            ELSE [code |-> 200,
                  doc |-> addAuditEntry(
                             [doc EXCEPT !.status = "submitted",
                                         !.submittedAt = now],
                             "application_submitted", req.actor)]
      [] req.op = "assign" ->
            [code |-> 200,
             doc |-> addAuditEntry(
                        [doc EXCEPT !.assignedTo =
                                       CHOOSE id \in Assignees : TRUE,
                                    !.assignedAt = now,
                                    !.status = "under_review"],
                        "application_assigned", req.actor)]
      [] req.op = "update" ->
            IF doc.status \in {"approved", "denied"}
            THEN [code |-> 400, doc |-> doc]
            ELSE [code |-> 200,
                  doc |-> addAuditEntry(ObjectAssign(doc, AmountBody),
                                        "application_updated", req.actor)]
      [] OTHER ->
            IF ~isModelLoaded
            THEN [code |-> 503, doc |-> doc]
            ELSE [code |-> 200,
                  doc |-> addAuditEntry(
                             [doc EXCEPT !.aiAssessment =
                                            fullAssessment(req.actor)],
                             "ai_analysis_completed", req.actor)]

\* The write of save(): the paths that the request changed since it loaded
\* the document are set on the stored document, and the audit entries that
\* the request pushed are pushed onto the stored array.
SaveDelta(stored, loaded, memory) ==
    [f \in DOMAIN stored |->
        IF f = "auditTrail"
        THEN stored.auditTrail \o
             SubSeq(memory.auditTrail, Len(loaded.auditTrail) + 1,
                    Len(memory.auditTrail))
        ELSE IF memory[f] # loaded[f] THEN memory[f] ELSE stored[f]]

\* A request slot before the request has read anything.
Arrived(req) == [req |-> req, pc |-> "arrived", doc |-> NoApp, code |-> 0]

\* Two requests for the shared draft arrive while the engine is loaded.
InitConcurrent ==
    /\ apps = [a \in AppIds |-> IF a = SharedApp THEN DraftApp ELSE NoApp]
    /\ isModelLoaded = TRUE
    /\ aiEngine = DemoEngine
    /\ now = 1
    /\ res = Response("none", NoUser, NoTarget, 0)
    /\ storageUp = TRUE
    /\ call = NoCall
    /\ InitAuth
    /\ \E first \in Requests, second \in Requests :
          inflight = <<Arrived(first), Arrived(second)>>

\* Middleware and findOne() of request i.
Load(i) ==
    /\ inflight[i].pc = "arrived"
    /\ inflight' =
          [inflight EXCEPT ![i] =
             IF Allowed(@.req)
             THEN [@ EXCEPT !.pc = "loaded", !.doc = apps[SharedApp]]
             ELSE [@ EXCEPT !.pc = "done", !.code = 403]]
    /\ UNCHANGED <<apps, isModelLoaded, now, res, storageUp, call,
                   auth, aiEngine>>

\* Handler body and save() of request i.
Store(i) ==
    /\ inflight[i].pc = "loaded"
    /\ LET h == Handle(inflight[i].req, inflight[i].doc)
       IN /\ inflight' = [inflight EXCEPT ![i] =
                             [@ EXCEPT !.pc = "done", !.code = h.code]]
          /\ apps' =
                IF h.code = 200
                THEN [apps EXCEPT ![SharedApp] =
                        SaveDelta(@, inflight[i].doc, preSave(h.doc, now))]
                ELSE apps
    /\ UNCHANGED <<isModelLoaded, now, res, storageUp, call, auth, aiEngine>>

NextConcurrent ==
    \/ \E i \in DOMAIN inflight : Load(i)
    \/ \E i \in DOMAIN inflight : Store(i)

SpecConcurrent == InitConcurrent /\ [][NextConcurrent]_vars

\* ------------------------------------------------------------------------
\* Functions applied to request data: the grants computed by POST /register
\* and the feature extraction of the scoring engine.  Each action applies
\* one function to one input and records input and result in `call`.  The
\* functions read nothing but their argument, so a behaviour applies one
\* function once.
\* ------------------------------------------------------------------------

\* Values of the role key of a registration body.
BodyRoles == Roles \cup {Absent, "bogus"}

\* POST /register: role || 'analyst', and the grants stored on the user.
Register(bodyRole) ==
    /\ LET stored == IF bodyRole = Absent THEN "analyst" ELSE bodyRole
       IN call' = [fn |-> "register",
                   role |-> stored,
                   permissions |-> getDefaultPermissions(stored)]
    /\ UNCHANGED <<apps, isModelLoaded, now, res, storageUp, inflight,
                   auth, aiEngine>>

\* Marker of a numeric field that the applicant data does not carry.
Missing == -1

\* Applicant data given to the engine.  The two ratios are in hundredths
\* (45 is 0.45); the other fields are in the units of the request.
ApplicantData ==
    [creditScore         : {Missing, 720, 850},
     annualIncome        : {Missing, 250000},
     debtToIncomeRatio   : {Missing, 0, 45},
     employmentLength    : {Missing, 0, 10},
     loanAmount          : {Missing, 600000},
     loanTerm            : {Missing, 30},
     paymentHistoryScore : {Missing, 95},
     creditUtilization   : {Missing, 0},
     numberOfAccounts    : {Missing, 0},
     recentInquiries     : {Missing, 0},
     collateralValue     : {Missing, 0},
     loanPurpose         : {Absent, "vacation", "bogus"}]

\* x || d of JavaScript on a number or undefined: d when x is undefined
\* or 0.
OrDefault(x, d) == IF x = Missing \/ x = 0 THEN d ELSE x

\* A feature as the quotient num / den.
Quotient(num, den) == [num |-> num, den |-> den]

getLoanPurposeScore(purpose) ==
    LET purposeScores ==
           [home_purchase      |-> 9,
            home_improvement   |-> 8,
            debt_consolidation |-> 6,
            auto_loan          |-> 7,
            business           |-> 5,
            education          |-> 8,
            medical            |-> 7,
            vacation           |-> 3,
            other              |-> 5]
    IN IF purpose \in DOMAIN purposeScores
       THEN OrDefault(purposeScores[purpose], 5)
       ELSE 5

\* preprocessFeatures(applicantData): the twelve pushes, in order.  The two
\* ratios are pushed undivided; in hundredths that is a quotient by 100 and
\* the default 0.3 is 30.
preprocessFeatures(applicantData) ==
    <<Quotient(OrDefault(applicantData.creditScore, 600), 800),
      Quotient(OrDefault(applicantData.annualIncome, 50000), 200000),
      Quotient(OrDefault(applicantData.debtToIncomeRatio, 30), 100),
      Quotient(OrDefault(applicantData.employmentLength, 2), 20),
      Quotient(OrDefault(applicantData.loanAmount, 50000), 500000),
      Quotient(OrDefault(applicantData.loanTerm, 15), 30),
      Quotient(OrDefault(applicantData.paymentHistoryScore, 80), 100),
      Quotient(OrDefault(applicantData.creditUtilization, 30), 100),
      Quotient(OrDefault(applicantData.numberOfAccounts, 5), 20),
      Quotient(OrDefault(applicantData.recentInquiries, 2), 10),
      Quotient(OrDefault(applicantData.collateralValue, 0), 1000000),
      Quotient(getLoanPurposeScore(applicantData.loanPurpose), 10)>>

\* A call of preprocessFeatures.
Extract(applicantData) ==
    /\ call' = [fn |-> "preprocessFeatures",
                data |-> applicantData,
                features |-> preprocessFeatures(applicantData)]
    /\ UNCHANGED <<apps, isModelLoaded, now, res, storageUp, inflight,
                   auth, aiEngine>>

\* ------------------------------------------------------------------------
\* Scoring.  The file holds two engine classes: the first asks a network
\* with a sigmoid output unit, the second (demo) computes a weighted sum,
\* a logistic function and a random perturbation.  A probability is kept
\* as a number of steps of 1 / ProbSteps; the value of the sigmoid is an
\* input of the model, any step of [0,1].
\* ------------------------------------------------------------------------

\* Resolution of probabilities: the probability k / ProbSteps is kept as k.
ProbSteps == 22

Probabilities == 0..ProbSteps

\* (Math.random() - 0.5) * 0.1 in steps: at most one step either way.
Perturbations == {-1, 0, 1}

\* Math.round(n / d) for n >= 0, d > 0.
Round(n, d) == (2 * n + d) \div (2 * d)

Min(x, y) == IF x <= y THEN x ELSE y

Max(x, y) == IF x >= y THEN x ELSE y

\* x > c and x < c of JavaScript on a number or undefined: false when x is
\* undefined.
Above(x, c) == x # Missing /\ x > c

Below(x, c) == x # Missing /\ x < c

\* q > n / d and q < n / d for a quotient q.
QuotientAbove(q, n, d) == q.num * d > n * q.den

QuotientBelow(q, n, d) == q.num * d < n * q.den

\* An array holding item when cond holds: an if with one push.
PushIf(cond, item) == IF cond THEN <<item>> ELSE <<>>

\* calculateCreditScoreDemo after the logistic function returned sigmoid:
\* the perturbation is added and the sum is clamped to [0,1].
calculateCreditScoreDemo(sigmoid, perturbation) ==
    Max(0, Min(ProbSteps, sigmoid + perturbation))

\* calculateRiskLevel with strict comparisons.
calculateRiskLevel_Strict(creditScore) ==
    IF creditScore > 750 THEN "LOW"
    ELSE IF creditScore > 650 THEN "MEDIUM"
    ELSE IF creditScore > 550 THEN "HIGH"
    ELSE "VERY_HIGH"

calculateRiskLevel(creditScore) ==
    IF creditScore >= 750 THEN "LOW"
    ELSE IF creditScore >= 650 THEN "MEDIUM"
    ELSE IF creditScore >= 550 THEN "HIGH"
    ELSE "VERY_HIGH"

\* analyzeFactors with thresholds that include the threshold value.
analyzeFactors_Inclusive(features) ==
    PushIf(~QuotientAbove(features[1], 6, 10),
           [factor |-> "Credit Score", impact |-> "NEGATIVE"])
    \o PushIf(~QuotientBelow(features[2], 8, 10),
              [factor |-> "Income", impact |-> "POSITIVE"])
    \o PushIf(~QuotientBelow(features[3], 4, 10),
              [factor |-> "Debt-to-Income", impact |-> "NEGATIVE"])
    \o PushIf(~QuotientBelow(features[7], 9, 10),
              [factor |-> "Payment History", impact |-> "POSITIVE"])
    \o PushIf(~QuotientBelow(features[8], 7, 10),
              [factor |-> "Credit Utilization", impact |-> "NEGATIVE"])

\* analyzeFactors(applicantData, features); features[i] of the source is
\* features[i + 1] here.
analyzeFactors(features) ==
    PushIf(QuotientBelow(features[1], 6, 10),
           [factor |-> "Credit Score", impact |-> "NEGATIVE"])
    \o PushIf(QuotientAbove(features[2], 8, 10),
              [factor |-> "Income", impact |-> "POSITIVE"])
    \o PushIf(QuotientAbove(features[3], 4, 10),
              [factor |-> "Debt-to-Income", impact |-> "NEGATIVE"])
    \o PushIf(QuotientAbove(features[7], 9, 10),
              [factor |-> "Payment History", impact |-> "POSITIVE"])
    \o PushIf(QuotientAbove(features[8], 7, 10),
              [factor |-> "Credit Utilization", impact |-> "NEGATIVE"])

\* generateRecommendations without the rule on the debt-to-income ratio.
generateRecommendations_NoRatioRule(applicantData, creditScore) ==
    PushIf(creditScore < 650,
           [type |-> "IMPROVEMENT", priority |-> "HIGH",
            action |-> "REQUEST_COSIGNER"])
    \o PushIf(creditScore >= 750,
              [type |-> "APPROVAL", priority |-> "LOW",
               action |-> "APPROVE_STANDARD"])

\* generateRecommendations as an if / else-if chain.
generateRecommendations_FirstMatch(applicantData, creditScore) ==
    IF creditScore < 650
    THEN <<[type |-> "IMPROVEMENT", priority |-> "HIGH",
            action |-> "REQUEST_COSIGNER"]>>
    ELSE IF Above(applicantData.debtToIncomeRatio, 40)
    THEN <<[type |-> "RISK_MITIGATION", priority |-> "MEDIUM",
            action |-> "REDUCE_LOAN_AMOUNT"]>>
    ELSE IF creditScore >= 750
    THEN <<[type |-> "APPROVAL", priority |-> "LOW",
            action |-> "APPROVE_STANDARD"]>>
    ELSE <<>>

\* generateRecommendations(applicantData, creditScore); the ratio 0.4 is 40
\* hundredths.
generateRecommendations(applicantData, creditScore) ==
    PushIf(creditScore < 650,
           [type |-> "IMPROVEMENT", priority |-> "HIGH",
            action |-> "REQUEST_COSIGNER"])
    \o PushIf(Above(applicantData.debtToIncomeRatio, 40),
              [type |-> "RISK_MITIGATION", priority |-> "MEDIUM",
               action |-> "REDUCE_LOAN_AMOUNT"])
    \o PushIf(creditScore >= 750,
              [type |-> "APPROVAL", priority |-> "LOW",
               action |-> "APPROVE_STANDARD"])

\* The two engine classes of the file.
Engines == {"tensorflow", "demo"}

\* The result object of predictCreditScore for a probability score:
\* Math.round(score * 850 + 300) in the first class,
\* Math.round(score * 550 + 300) in the demo class.
Assessment(engine, applicantData, score) ==
    LET creditScore ==
           IF engine = "tensorflow"
           THEN Round(score * 850 + 300 * ProbSteps, ProbSteps)
           ELSE Round(score * 550 + 300 * ProbSteps, ProbSteps)
    IN [creditScore |-> creditScore,
        riskLevel |-> calculateRiskLevel(creditScore),
        probability |-> score,
        recommendations |->
           generateRecommendations(applicantData, creditScore),
        factors |-> analyzeFactors(preprocessFeatures(applicantData))]

\* Applicant data given to predictCreditScore: the five fields read by the
\* factor and recommendation rules take values below, on and above the
\* thresholds; the other fields are absent.
ScoringData ==
    [creditScore         : {Missing, 400, 480},
     annualIncome        : {Missing, 160000, 250000},
     debtToIncomeRatio   : {Missing, 40, 45},
     employmentLength    : {Missing},
     loanAmount          : {Missing},
     loanTerm            : {Missing},
     paymentHistoryScore : {Missing, 90, 95},
     creditUtilization   : {Missing, 70, 80},
     numberOfAccounts    : {Missing},
     recentInquiries     : {Missing},
     collateralValue     : {Missing},
     loanPurpose         : {Absent}]

\* predictCreditScore(applicantData): throws while the model is not loaded.
predictCreditScore(engine, applicantData, score) ==
    /\ call' =
          IF ~isModelLoaded
          THEN [fn |-> "predictCreditScore", engine |-> engine,
                data |-> applicantData, thrown |-> TRUE]
          ELSE [fn |-> "predictCreditScore", engine |-> engine,
                data |-> applicantData, thrown |-> FALSE,
                result |-> Assessment(engine, applicantData, score)]
    /\ UNCHANGED <<apps, isModelLoaded, now, res, storageUp, inflight,
                   auth, aiEngine>>

\* ------------------------------------------------------------------------
\* Fraud evaluation.
\* ------------------------------------------------------------------------

\* Applicant data given to evaluateFraudRisk: each field read by a rule is
\* absent, on the limit of its rule or beyond it.  employmentLength is in
\* tenths of a year (half a year is 5, one year is 10).
FraudData ==
    [annualIncome     : {Missing, 200000, 250000},
     employmentLength : {Missing, 5, 10},
     timeAtAddress    : {Missing, 3, 6},
     age              : {Missing, 20, 21},
     creditScore      : {Missing, 750, 800},
     recentInquiries  : {Missing, 5, 6}]

\* The four rules of evaluateFraudRisk, in the order of the source.
FraudRules(applicantData) ==
    <<[fires |-> Above(applicantData.annualIncome, 200000)
                   /\ Below(applicantData.employmentLength, 10),
       factor |-> "High income with short employment history",
       points |-> 30],
      [fires |-> Below(applicantData.timeAtAddress, 6),
       factor |-> "Recently moved to current address",
       points |-> 10],
      [fires |-> Below(applicantData.age, 21)
                   /\ Above(applicantData.creditScore, 750),
       factor |-> "High credit score at young age",
       points |-> 20],
      [fires |-> Above(applicantData.recentInquiries, 5),
       factor |-> "Multiple recent credit inquiries",
       points |-> 15]>>

\* The risk level with the limits included in the upper band.
FraudRiskLevel_Inclusive(fraudScore) ==
    IF fraudScore >= 50 THEN "HIGH"
    ELSE IF fraudScore >= 25 THEN "MEDIUM"
    ELSE "LOW"

\* fraudScore > 50 ? 'HIGH' : fraudScore > 25 ? 'MEDIUM' : 'LOW'
FraudRiskLevel(fraudScore) ==
    IF fraudScore > 50 THEN "HIGH"
    ELSE IF fraudScore > 25 THEN "MEDIUM"
    ELSE "LOW"

\* fraudScore > 50 ? 'MANUAL_REVIEW' : 'AUTOMATED_PROCESSING'
FraudRecommendation(fraudScore) ==
    IF fraudScore > 50 THEN "MANUAL_REVIEW" ELSE "AUTOMATED_PROCESSING"

\* The four if statements run one after the other on (fraudScore,
\* riskFactors), from rule i on.
RECURSIVE RunRules(_, _, _, _)
RunRules(rules, i, fraudScore, riskFactors) ==
    IF i > Len(rules) THEN [fraudScore |-> fraudScore,
                            riskFactors |-> riskFactors]
    ELSE IF rules[i].fires
    THEN RunRules(rules, i + 1, fraudScore + rules[i].points,
                  Append(riskFactors, rules[i].factor))
    ELSE RunRules(rules, i + 1, fraudScore, riskFactors)

\* The rules as an if / else-if chain: the first rule that fires is the
\* only one counted.
RECURSIVE RunRules_FirstMatch(_, _, _, _)
RunRules_FirstMatch(rules, i, fraudScore, riskFactors) ==
    IF i > Len(rules) THEN [fraudScore |-> fraudScore,
                            riskFactors |-> riskFactors]
    ELSE IF rules[i].fires
    THEN [fraudScore |-> fraudScore + rules[i].points,
          riskFactors |-> Append(riskFactors, rules[i].factor)]
    ELSE RunRules_FirstMatch(rules, i + 1, fraudScore, riskFactors)

FraudAssessment_FirstMatch(applicantData) ==
    LET run == RunRules_FirstMatch(FraudRules(applicantData), 1, 0, <<>>)
    IN [fraudScore |-> run.fraudScore,
        riskLevel |-> FraudRiskLevel(run.fraudScore),
        riskFactors |-> run.riskFactors,
        recommendation |-> FraudRecommendation(run.fraudScore)]

\* The object returned by evaluateFraudRisk.
FraudAssessment(applicantData) ==
    LET run == RunRules(FraudRules(applicantData), 1, 0, <<>>)
    IN [fraudScore |-> run.fraudScore,
        riskLevel |-> FraudRiskLevel(run.fraudScore),
        riskFactors |-> run.riskFactors,
        recommendation |-> FraudRecommendation(run.fraudScore)]

\* evaluateFraudRisk(applicantData): it does not read isModelLoaded.
evaluateFraudRisk(applicantData) ==
    /\ call' = [fn |-> "evaluateFraudRisk", data |-> applicantData,
                result |-> FraudAssessment(applicantData)]
    /\ UNCHANGED <<apps, isModelLoaded, now, res, storageUp, inflight,
                   auth, aiEngine>>

\* ------------------------------------------------------------------------
\* The analysis of a stored application: POST /analyze builds
\* dataToAnalyze from the document and gives the same object to
\* predictCreditScore and to evaluateFraudRisk.
\* ------------------------------------------------------------------------

\* The fields of a stored application that the analysis reads and that the
\* fraud rules test; a field that was never recorded is Missing.
\* employmentLength is in years, age stands for the date of birth.
StoredInputs ==
    [creditScore      : {Missing, 800},
     annualIncome     : {Missing, 250000},
     employmentLength : {Missing, 0, 1, 3},
     recentInquiries  : {Missing, 0, 6},
     timeAtAddress    : {Missing, 3},
     age              : {Missing, 20}]

\* dataToAnalyze of POST /analyze for a stored application; the fields of
\* the document that StoredInputs leaves out are not recorded.
dataToAnalyze(application) ==
    [creditScore         |-> application.creditScore,
     annualIncome        |-> application.annualIncome,
     debtToIncomeRatio   |-> Missing,
     employmentLength    |-> OrDefault(application.employmentLength, 0),
     loanAmount          |-> Missing,
     loanTerm            |-> Missing,
     paymentHistoryScore |-> OrDefault(Missing, 80),
     creditUtilization   |-> OrDefault(Missing, 30),
     numberOfAccounts    |-> OrDefault(Missing, 5),
     recentInquiries     |-> OrDefault(application.recentInquiries, 1),
     collateralValue     |-> OrDefault(Missing, 0),
     loanPurpose         |-> Absent,
     timeAtAddress       |-> OrDefault(application.timeAtAddress, 12),
     age                 |-> IF application.age = Missing
                             THEN 35 ELSE application.age]

\* The fields of dataToAnalyze that evaluateFraudRisk reads, with the
\* employment length in the unit of FraudRules (tenths of a year).
FraudView(data) ==
    [annualIncome     |-> data.annualIncome,
     employmentLength |-> IF data.employmentLength = Missing
                          THEN Missing ELSE 10 * data.employmentLength,
     timeAtAddress    |-> data.timeAtAddress,
     age              |-> data.age,
     creditScore      |-> data.creditScore,
     recentInquiries  |-> data.recentInquiries]

\* The part of POST /analyze between the loading of the application and the
\* building of fullAssessment, for a stored application.
AnalyzeStored(application) ==
    /\ call' =
          IF ~isModelLoaded
          THEN [fn |-> "analyze", application |-> application, code |-> 503]
          ELSE LET data == dataToAnalyze(application)
               IN [fn |-> "analyze", application |-> application,
                   code |-> 200, data |-> data,
                   features |-> preprocessFeatures(data),
                   fraudAssessment |-> FraudAssessment(FraudView(data))]
    /\ UNCHANGED <<apps, isModelLoaded, now, res, storageUp, inflight,
                   auth, aiEngine>>

NextFunctions ==
    \/ /\ call = NoCall
       /\ \E bodyRole \in BodyRoles : Register(bodyRole)
    \/ /\ call = NoCall
       /\ \E applicantData \in ApplicantData : Extract(applicantData)
    \/ /\ call = NoCall
       /\ initializeModel
    \/ /\ call = NoCall
       /\ \E applicantData \in ScoringData, output \in Probabilities :
             predictCreditScore("tensorflow", applicantData, output)
    \/ /\ call = NoCall
       /\ \E applicantData \in ScoringData, sigmoid \in Probabilities,
             perturbation \in Perturbations :
             predictCreditScore("demo", applicantData,
                calculateCreditScoreDemo(sigmoid, perturbation))
    \/ /\ call = NoCall
       /\ \E applicantData \in FraudData : evaluateFraudRisk(applicantData)
    \/ /\ call = NoCall
       /\ \E application \in StoredInputs : AnalyzeStored(application)

SpecFunctions == Init /\ [][NextFunctions]_vars

\* ------------------------------------------------------------------------
\* Life cycle of a scoring engine of either class: initializeModel,
\* predictCreditScore and dispose called in any order.
\* ------------------------------------------------------------------------

\* initializeModel of the first class when trainInitialModel rejects: the
\* network has been assigned to this.model and isModelLoaded is not set.
initializeModelThrows ==
    /\ aiEngine.class = "tensorflow"
    /\ ~isModelLoaded
    /\ aiEngine' = [aiEngine EXCEPT !.model = "sequential"]
    /\ res' = Response("initializeModelThrows", NoUser, NoTarget, 0)
    /\ UNCHANGED <<apps, isModelLoaded, now, storageUp, inflight, call,
                   auth>>

\* dispose(): the same statement in both classes, `if (this.model)`
\* around the assignment isModelLoaded = false.
dispose ==
    /\ isModelLoaded' = IF aiEngine.model # "null" THEN FALSE
                        ELSE isModelLoaded
    /\ res' = Response("dispose", NoUser, NoTarget, 0)
    /\ UNCHANGED <<apps, now, env>>

\* Applicants scored during the life cycle: a credit score or none.
LifecycleData ==
    {applicantData \in ScoringData :
        \A f \in DOMAIN applicantData \ {"creditScore", "loanPurpose"} :
           applicantData[f] = Missing}

InitEngine ==
    /\ apps = [a \in AppIds |-> NoApp]
    /\ isModelLoaded = FALSE
    /\ \E class \in Engines : aiEngine = NewEngine(class)
    /\ now = 1
    /\ res = Response("none", NoUser, NoTarget, 0)
    /\ storageUp = TRUE
    /\ inflight = NoRequests
    /\ call = NoCall
    /\ InitAuth

NextEngine ==
    \/ initializeModel
    \/ initializeModelThrows
    \/ dispose
    \/ \E applicantData \in LifecycleData, output \in Probabilities :
          /\ aiEngine.class = "tensorflow"
          /\ predictCreditScore("tensorflow", applicantData, output)
    \/ \E applicantData \in LifecycleData, sigmoid \in Probabilities,
          perturbation \in Perturbations :
          /\ aiEngine.class = "demo"
          /\ predictCreditScore("demo", applicantData,
                calculateCreditScoreDemo(sigmoid, perturbation))

SpecEngine == InitEngine /\ [][NextEngine]_vars

\* ------------------------------------------------------------------------
\* Batch analysis over several applications (POST /api/ai/batch-analyze).
\* Every application of the selection is one iteration of the loop; an
\* iteration fails when predictCreditScore throws or when save() rejects.
\* ------------------------------------------------------------------------

\* The stored applications, in the order find() returns them.
BatchOrder == <<"app1", "app2">>

BatchApps == {BatchOrder[i] : i \in 1..Len(BatchOrder)}

\* Status of a stored application at the start.
BatchStatuses == {"draft", "submitted", "under_review"}

StoredApp(a, status) ==
    [NoApp EXCEPT !.exists = TRUE, !.status = status, !.applicationId = a]

\* The documents found by the batch route, in order.
BatchFound(body) ==
    LET Picked(a) ==
           /\ apps[a].exists
           /\ apps[a].status \in
                 IF body = "applicationIds"
                 THEN {"submitted", "under_review"} ELSE {"submitted"}
    IN SelectSeq(BatchOrder, Picked)

\* The loop without a try block of its own: the first failure ends it.
RECURSIVE BatchLoop_StopAtError(_, _, _, _, _)
BatchLoop_StopAtError(u, found, refused, i, acc) ==
    IF i > Len(found) THEN acc
    ELSE LET a == found[i]
             assessed == [acc.docs[a] EXCEPT
                             !.aiAssessment = fullAssessment(u)]
             doc == addAuditEntry(assessed, "ai_batch_analysis", u)
         IN IF ~isModelLoaded \/ ~validate(doc) \/ a \in refused
            THEN [acc EXCEPT !.errors = Append(@, a)]
            ELSE BatchLoop_StopAtError(u, found, refused, i + 1,
                    [acc EXCEPT !.docs[a] = preSave(doc, now),
                                !.results = Append(@, a)])

\* for (const application of applications) { try { ... } catch { ... } }
\* from iteration i on; acc holds the stored documents and the two lists.
RECURSIVE BatchLoop(_, _, _, _, _)
BatchLoop(u, found, refused, i, acc) ==
    IF i > Len(found) THEN acc
    ELSE LET a == found[i]
             assessed == [acc.docs[a] EXCEPT
                             !.aiAssessment = fullAssessment(u)]
             doc == addAuditEntry(assessed, "ai_batch_analysis", u)
         IN IF ~isModelLoaded \/ ~validate(doc) \/ a \in refused
            THEN BatchLoop(u, found, refused, i + 1,
                    [acc EXCEPT !.errors = Append(@, a)])
            ELSE BatchLoop(u, found, refused, i + 1,
                    [acc EXCEPT !.docs[a] = preSave(doc, now),
                                !.results = Append(@, a)])

\* The whole batch request of user u; refused is the set of applications
\* whose save() the store rejects during this request.
BatchRequest(u, body, refused) ==
    IF ~authorize(u, {"admin", "underwriter"})
    THEN /\ call' = [fn |-> "batch-analyze", code |-> 403]
         /\ Respond("batch", u, NoTarget, 403)
    ELSE IF body = "empty"
    THEN /\ call' = [fn |-> "batch-analyze", code |-> 400]
         /\ Respond("batch", u, NoTarget, 400)
    ELSE IF BatchFound(body) = <<>>
    THEN /\ call' = [fn |-> "batch-analyze", code |-> 404]
         /\ Respond("batch", u, NoTarget, 404)
    ELSE LET found == BatchFound(body)
             done == BatchLoop(u, found, refused, 1,
                        [docs |-> apps, results |-> <<>>, errors |-> <<>>])
         IN /\ now < MaxTime
            /\ apps' = done.docs
            /\ now' = IF done.results = <<>> THEN now ELSE now + 1
            /\ res' = Response("batch", u, NoTarget, 200)
            /\ call' = [fn |-> "batch-analyze", code |-> 200,
                        found |-> found,
                        results |-> done.results,
                        errors |-> done.errors,
                        summary |-> [total |-> Len(found),
                                     successful |-> Len(done.results),
                                     failed |-> Len(done.errors)]]
            /\ UNCHANGED <<isModelLoaded, storageUp, inflight, auth, aiEngine>>

InitBatch ==
    /\ \E status \in [BatchApps -> BatchStatuses] :
          apps = [a \in BatchApps |-> StoredApp(a, status[a])]
    /\ isModelLoaded = FALSE
    /\ aiEngine = DemoEngine
    /\ now = 1
    /\ res = Response("none", NoUser, NoTarget, 0)
    /\ storageUp = TRUE
    /\ inflight = NoRequests
    /\ call = NoCall
    /\ InitAuth

NextBatch ==
    \/ initializeModel
    \/ \E u \in Actors, a \in AppIds, body \in AnalyzeBodies :
          Analyze(u, a, body)
    \/ \E u \in Actors, body \in BatchBodies, refused \in SUBSET BatchApps :
          BatchRequest(u, body, refused)

SpecBatch == InitBatch /\ [][NextBatch]_vars

\* ------------------------------------------------------------------------
\* Login (POST /api/auth/login) with several requests in flight.  A request
\* yields at its awaits: after findOne() and comparePassword() other
\* requests may run before it updates the failed-attempt counter.  The
\* methods of the User model (isLocked, comparePassword, incLoginAttempts,
\* resetLoginAttempts) follow the specification: updates of the counter of
\* one account are atomic on the stored document.
\* ------------------------------------------------------------------------

\* Number of login requests in flight.
MaxLogins == 3

\* Bodies of a login request: the username of the account, an unknown
\* username or none, with the right or a wrong password.
LoginBodies ==
    [username : Accounts \cup {"nobody", Absent},
     password : {"right", "wrong"}]

\* user.incLoginAttempts() computed from the document the request loaded.
incLoginAttempts_FromLoaded(stored, loaded) ==
    [stored EXCEPT !.loginAttempts = loaded.loginAttempts + 1]

\* user.incLoginAttempts(): an atomic increment of the stored counter.
incLoginAttempts(stored, loaded) ==
    [stored EXCEPT !.loginAttempts = @ + 1]

\* user.resetLoginAttempts(): the stored counter is set to 0.
resetLoginAttempts(stored) == [stored EXCEPT !.loginAttempts = 0]

\* A login request before it has read anything.
LoginArrived(body) ==
    [req |-> body, pc |-> "arrived", doc |-> NewUser, code |-> 0,
     token |-> FALSE]

InitLogin ==
    /\ apps = [a \in AppIds |-> NoApp]
    /\ isModelLoaded = FALSE
    /\ aiEngine = DemoEngine
    /\ now = 1
    /\ res = Response("none", NoUser, NoTarget, 0)
    /\ storageUp = TRUE
    /\ call = NoCall
    /\ attempts = [k \in Keys |-> <<>>]
    /\ admitted = [k \in Keys |-> <<>>]
    /\ \E locked \in BOOLEAN, isActive \in BOOLEAN :
          users = [n \in Accounts |->
                     [NewUser EXCEPT !.locked = locked,
                                     !.isActive = isActive]]
    /\ \E bodies \in [1..MaxLogins -> LoginBodies] :
          inflight = [i \in 1..MaxLogins |-> LoginArrived(bodies[i])]

\* The first part of the handler without the test of isLocked.
LoginLoad_NoLockTest(i) ==
    /\ inflight[i].pc = "arrived"
    /\ LET body == inflight[i].req
       IN inflight' =
             [inflight EXCEPT ![i] =
                IF body.username = Absent
                THEN [@ EXCEPT !.pc = "done", !.code = 400]
                ELSE IF body.username \notin Accounts
                THEN [@ EXCEPT !.pc = "done", !.code = 401]
                ELSE IF ~users[body.username].isActive
                THEN [@ EXCEPT !.pc = "done", !.code = 401]
                ELSE [@ EXCEPT !.pc = "compared",
                               !.doc = users[body.username]]]
    /\ UNCHANGED <<apps, isModelLoaded, now, res, storageUp, call,
                   attempts, admitted, users, aiEngine>>

\* Request i up to the end of comparePassword(): validation of the body,
\* findOne(), the locked and active tests.
LoginLoad(i) ==
    /\ inflight[i].pc = "arrived"
    /\ LET body == inflight[i].req
       IN inflight' =
             [inflight EXCEPT ![i] =
                IF body.username = Absent
                THEN [@ EXCEPT !.pc = "done", !.code = 400]
                ELSE IF body.username \notin Accounts
                THEN [@ EXCEPT !.pc = "done", !.code = 401]
                ELSE IF users[body.username].locked
                THEN [@ EXCEPT !.pc = "done", !.code = 401]
                ELSE IF ~users[body.username].isActive
                THEN [@ EXCEPT !.pc = "done", !.code = 401]
                ELSE [@ EXCEPT !.pc = "compared",
                               !.doc = users[body.username]]]
    /\ UNCHANGED <<apps, isModelLoaded, now, res, storageUp, call,
                   attempts, admitted, users, aiEngine>>

\* Request i after comparePassword(): a mismatch increments the counter
\* and is answered 401; a match resets a counter that was loaded above 0,
\* saves lastLogin (save() writes the paths the request changed) and is
\* answered 200 with the token made by generateToken.
LoginFinish(i) ==
    /\ inflight[i].pc = "compared"
    /\ LET n == inflight[i].req.username
           loaded == inflight[i].doc
       IN IF inflight[i].req.password = "wrong"
          THEN /\ users' = [users EXCEPT
                               ![n] = incLoginAttempts(@, loaded)]
               /\ inflight' = [inflight EXCEPT ![i] =
                                  [@ EXCEPT !.pc = "done", !.code = 401]]
          ELSE /\ users' =
                     [users EXCEPT ![n] =
                        [(IF loaded.loginAttempts > 0
                          THEN resetLoginAttempts(@) ELSE @)
                         EXCEPT !.lastLogin = now]]
               /\ inflight' = [inflight EXCEPT ![i] =
                                  [@ EXCEPT !.pc = "done", !.code = 200,
                                            !.token = TRUE]]
    /\ UNCHANGED <<apps, isModelLoaded, now, res, storageUp, call,
                   attempts, admitted, aiEngine>>

NextLogin ==
    \/ \E i \in DOMAIN inflight : LoginLoad(i)
    \/ \E i \in DOMAIN inflight : LoginFinish(i)

SpecLogin == InitLogin /\ [][NextLogin]_vars

\* ------------------------------------------------------------------------
\* Authentication middleware (protect, verifyRefreshToken, optionalAuth)
\* applied to one request each, over two stored accounts in every
\* combination of active and locked.
\* ------------------------------------------------------------------------

\* The stored accounts seen by the middleware.
AuthAccounts == {"user1", "user2"}

\* A token as jwt.verify sees it: verified tells whether the signature and
\* the expiry pass, id is the decoded user id (NoUser is the id of a user
\* that is not stored).
NoToken == [present |-> FALSE, verified |-> FALSE, id |-> NoUser]

Tokens ==
    {NoToken}
    \cup [present : {TRUE}, verified : BOOLEAN,
          id : AuthAccounts \cup {NoUser}]

\* What a middleware did with a request: the actor it set on the request,
\* whether it called next() and the status it answered (0: none).
Passed(fn, token, user) ==
    [fn |-> fn, token |-> token, user |-> user, next |-> TRUE, code |-> 0]

Denied(fn, token) ==
    [fn |-> fn, token |-> token, user |-> NoUser, next |-> FALSE,
     code |-> 401]

\* protect
protect(token) ==
    /\ call' =
          IF ~token.present THEN Denied("protect", token)
          ELSE IF ~token.verified THEN Denied("protect", token)
          ELSE IF token.id \notin DOMAIN users
          THEN Denied("protect", token)
          ELSE IF ~users[token.id].isActive THEN Denied("protect", token)
          ELSE IF users[token.id].locked THEN Denied("protect", token)
          ELSE Passed("protect", token, token.id)
    /\ UNCHANGED <<apps, isModelLoaded, now, res, storageUp, inflight,
                   auth, aiEngine>>

\* verifyRefreshToken
verifyRefreshToken(token) ==
    /\ call' =
          IF ~token.present THEN Denied("verifyRefreshToken", token)
          ELSE IF ~token.verified THEN Denied("verifyRefreshToken", token)
          ELSE IF token.id \notin DOMAIN users \/ ~users[token.id].isActive
          THEN Denied("verifyRefreshToken", token)
          ELSE Passed("verifyRefreshToken", token, token.id)
    /\ UNCHANGED <<apps, isModelLoaded, now, res, storageUp, inflight,
                   auth, aiEngine>>

\* optionalAuth
optionalAuth(token) ==
    /\ call' =
          IF /\ token.present
             /\ token.verified
             /\ token.id \in DOMAIN users
             /\ users[token.id].isActive
             /\ ~users[token.id].locked
          THEN Passed("optionalAuth", token, token.id)
          ELSE Passed("optionalAuth", token, NoUser)
    /\ UNCHANGED <<apps, isModelLoaded, now, res, storageUp, inflight,
                   auth, aiEngine>>

InitMiddleware ==
    /\ apps = [a \in AppIds |-> NoApp]
    /\ isModelLoaded = FALSE
    /\ aiEngine = DemoEngine
    /\ now = 1
    /\ res = Response("none", NoUser, NoTarget, 0)
    /\ storageUp = TRUE
    /\ inflight = NoRequests
    /\ call = NoCall
    /\ attempts = [k \in Keys |-> <<>>]
    /\ admitted = [k \in Keys |-> <<>>]
    /\ \E locked \in [AuthAccounts -> BOOLEAN],
          isActive \in [AuthAccounts -> BOOLEAN] :
          users = [n \in AuthAccounts |->
                     [NewUser EXCEPT !.locked = locked[n],
                                     !.isActive = isActive[n]]]

NextMiddleware ==
    \/ \E token \in Tokens : protect(token)
    \/ \E token \in Tokens : verifyRefreshToken(token)
    \/ \E token \in Tokens : optionalAuth(token)

SpecMiddleware == InitMiddleware /\ [][NextMiddleware]_vars

\* ------------------------------------------------------------------------
\* Rate limiter of the sensitive routes (sensitiveRateLimit).  The
\* middleware is synchronous: from reading the clock to calling next() or
\* answering 429 it is one step, whatever else the server is doing.
\* ------------------------------------------------------------------------

\* Last value of Date.now() explored by the limiter.
MaxClock == 5

\* windowMs, in ticks of the clock.
WindowMs == 2

\* sensitiveRateLimit(3) on PUT /profile.
maxAttempts == 3

\* The timestamps of list that are later than windowStart.
After(list, windowStart) ==
    LET Later(time) == time > windowStart IN SelectSeq(list, Later)

\* The limiter admitting one request more than maxAttempts.
sensitiveRateLimit_OffByOne(key) ==
    LET windowStart == now - WindowMs
        currentAttempts == After(attempts[key], windowStart)
    IN IF Len(currentAttempts) > maxAttempts
       THEN /\ attempts' = [attempts EXCEPT ![key] = currentAttempts]
            /\ res' = Response("profile", key, NoTarget, 429)
            /\ UNCHANGED <<apps, isModelLoaded, now, storageUp, inflight,
                           call, admitted, users, aiEngine>>
       ELSE /\ attempts' = [attempts EXCEPT
                               ![key] = Append(currentAttempts, now)]
            /\ admitted' = [admitted EXCEPT ![key] = Append(@, now)]
            /\ res' = Response("profile", key, NoTarget, 200)
            /\ UNCHANGED <<apps, isModelLoaded, now, storageUp, inflight,
                           call, users, aiEngine>>

\* The limiter recording the time of a request that it rejects.
sensitiveRateLimit_RecordsRejected(key) ==
    LET windowStart == now - WindowMs
        currentAttempts == After(attempts[key], windowStart)
    IN IF Len(currentAttempts) >= maxAttempts
       THEN /\ attempts' = [attempts EXCEPT
                               ![key] = Append(currentAttempts, now)]
            /\ res' = Response("profile", key, NoTarget, 429)
            /\ UNCHANGED <<apps, isModelLoaded, now, storageUp, inflight,
                           call, admitted, users, aiEngine>>
       ELSE /\ attempts' = [attempts EXCEPT
                               ![key] = Append(currentAttempts, now)]
            /\ admitted' = [admitted EXCEPT ![key] = Append(@, now)]
            /\ res' = Response("profile", key, NoTarget, 200)
            /\ UNCHANGED <<apps, isModelLoaded, now, storageUp, inflight,
                           call, users, aiEngine>>

\* The middleware returned by sensitiveRateLimit, on a request with the
\* given key.  admitted records the times at which next() was called and
\* the response code 200 stands for the route handler having been invoked.
sensitiveRateLimit(key) ==
    LET windowStart == now - WindowMs
        currentAttempts == After(attempts[key], windowStart)
    IN IF Len(currentAttempts) >= maxAttempts
       THEN /\ attempts' = [attempts EXCEPT ![key] = currentAttempts]
            /\ res' = Response("profile", key, NoTarget, 429)
            /\ UNCHANGED <<apps, isModelLoaded, now, storageUp, inflight,
                           call, admitted, users, aiEngine>>
       ELSE /\ attempts' = [attempts EXCEPT
                               ![key] = Append(currentAttempts, now)]
            /\ admitted' = [admitted EXCEPT ![key] = Append(@, now)]
            /\ res' = Response("profile", key, NoTarget, 200)
            /\ UNCHANGED <<apps, isModelLoaded, now, storageUp, inflight,
                           call, users, aiEngine>>

\* Date.now() moves on.
Tick ==
    /\ now < MaxClock
    /\ now' = now + 1
    /\ res' = Response("tick", NoUser, NoTarget, 0)
    /\ UNCHANGED <<apps, isModelLoaded, storageUp, inflight, call,
                   auth, aiEngine>>

NextLimiter ==
    \/ Tick
    \/ \E key \in Keys : sensitiveRateLimit(key)

SpecLimiter == Init /\ [][NextLimiter]_vars

\* The same limiter with time that goes on: Date.now() is the clock of the
\* machine, which no request can hold back.
SpecLimiterLive == Init /\ [][NextLimiter]_vars /\ WF_vars(Tick)

\* ------------------------------------------------------------------------
\* Properties
\* ------------------------------------------------------------------------

Terminal == {"approved", "denied", "withdrawn"}

\* The transition table of the lifecycle.
LegalTransition(s, t) ==
    \/ s = "draft" /\ t = "submitted"
    \/ s \in {"submitted", "under_review"} /\ t = "under_review"
    \/ s \notin Terminal /\ t \in {"approved", "denied"}
    \/ s \notin Terminal /\ t = "withdrawn"

IsPrefix(s, t) ==
    /\ Len(s) <= Len(t)
    /\ \A i \in 1..Len(s) : s[i] = t[i]

Last(s) == s[Len(s)]

\* The last operation addressed a stored application.
Addressed(r) == r.app \in AppIds

\* C1: the status of every application is always one of the seven statuses,
\* and every change of the status of a stored application made by one
\* operation is a transition of the lifecycle table.
C1_OnlyLegalTransitions ==
    [][\A a \in AppIds :
          /\ apps'[a].status \in Statuses
          /\ (apps[a].exists /\ apps'[a].status # apps[a].status)
                => LegalTransition(apps[a].status, apps'[a].status)]_vars

\* C2: once the status of an application is approved, denied or withdrawn,
\* no operation changes it.
C2_TerminalAbsorbing ==
    [][\A a \in AppIds :
          (apps[a].exists /\ apps[a].status \in Terminal)
             => apps'[a].status = apps[a].status]_vars

AuthorizationError(r) == r.code = 403

IllegalTransitionError(r) == r.code = 400 /\ r.op \in {"update", "submit"}

\* C3: an operation answered with an authorization error or an
\* illegal-transition error leaves every stored application, audit trail
\* included, as it was; submit by an actor without applications:update is
\* answered with an authorization error.
C3_RejectionIsNoOp ==
    [][/\ (AuthorizationError(res') \/ IllegalTransitionError(res'))
            => apps' = apps
       /\ (res'.op = "submit"
             /\ ~hasPermission(res'.actor, "applications", "update"))
            => (AuthorizationError(res') /\ apps' = apps)]_vars

\* A submit by an actor without applications:update was refused on a draft
\* application, which is still a draft.
C3_Witness ==
    /\ res.op = "submit"
    /\ AuthorizationError(res)
    /\ ~hasPermission(res.actor, "applications", "update")
    /\ Addressed(res)
    /\ apps[res.app].exists
    /\ apps[res.app].status = "draft"

\* C4: a submit of a stored application succeeds exactly when its status is
\* draft and the actor holds applications:update; then the status becomes
\* submitted, submittedAt is set and exactly one application_submitted entry
\* is appended; otherwise nothing changes.
C4_SubmitExactlyFromDraft ==
    [][(res'.op = "submit" /\ Addressed(res') /\ apps[res'.app].exists) =>
          LET pre == apps[res'.app]
              post == apps'[res'.app]
          IN IF /\ pre.status = "draft"
                /\ hasPermission(res'.actor, "applications", "update")
             THEN /\ res'.code = 200
                  /\ post.status = "submitted"
                  /\ post.submittedAt # NoDate
                  /\ post.auditTrail =
                        Append(pre.auditTrail,
                               [action |-> "application_submitted",
                                performedBy |-> res'.actor])
             ELSE /\ res'.code \in {400, 403}
                  /\ apps' = apps]_vars

\* A submit succeeded.
C4_Witness ==
    /\ res.op = "submit"
    /\ res.code = 200
    /\ apps[res.app].status = "submitted"
    /\ apps[res.app].submittedAt # NoDate
    /\ Last(apps[res.app].auditTrail).action = "application_submitted"

\* C5 as stated: an update of an approved or denied application is always
\* answered with the illegal-transition error, whoever the actor is, and
\* changes nothing.
C5_FinalizedUpdateAlwaysIllegal ==
    [][(/\ res'.op = "update"
        /\ Addressed(res')
        /\ apps[res'.app].exists
        /\ apps[res'.app].status \in {"approved", "denied"})
          => (IllegalTransitionError(res') /\ apps' = apps)]_vars

\* C5 amended: an update of an approved or denied application always fails
\* and changes nothing; the answer is the illegal-transition error when the
\* actor holds applications:update and the authorization error when not.
C5_FinalizedUpdateFails ==
    [][(/\ res'.op = "update"
        /\ Addressed(res')
        /\ apps[res'.app].exists
        /\ apps[res'.app].status \in {"approved", "denied"})
          => /\ apps' = apps
             /\ IF hasPermission(res'.actor, "applications", "update")
                THEN IllegalTransitionError(res')
                ELSE AuthorizationError(res')]_vars

\* An update by an actor holding applications:update was refused on a
\* finalized application.
C5_Witness ==
    /\ res.op = "update"
    /\ IllegalTransitionError(res)
    /\ hasPermission(res.actor, "applications", "update")
    /\ apps[res.app].exists
    /\ apps[res.app].status \in {"approved", "denied"}

\* C6: the status of a stored application changes to approved or denied only
\* by an operation of an actor who holds applications:approve.
C6_DecisionNeedsApprove ==
    [][\A a \in AppIds :
          (/\ apps[a].exists
           /\ apps'[a].status # apps[a].status
           /\ apps'[a].status \in {"approved", "denied"})
             => hasPermission(res'.actor, "applications", "approve")]_vars

\* C7: an assign of a stored application succeeds only from submitted or
\* under_review, and then sets under_review, the assignee and the assignment
\* date; from any other status it fails and changes nothing.
C7_AssignOnlyFromReviewable ==
    [][(res'.op = "assign" /\ Addressed(res') /\ apps[res'.app].exists) =>
          LET pre == apps[res'.app]
              post == apps'[res'.app]
          IN IF res'.code = 200
             THEN /\ pre.status \in {"submitted", "under_review"}
                  /\ post.status = "under_review"
                  /\ post.assignedTo # NoUser
                  /\ post.assignedAt # NoDate
             ELSE apps' = apps]_vars

\* C8: an assign is carried out only for an actor whose role is admin or
\* underwriter; for any other role it is answered with the authorization
\* error, whether or not the application exists, and changes nothing.
C8_AssignRoleGated ==
    [][res'.op = "assign" =>
          IF role(res'.actor) \in {"admin", "underwriter"}
          THEN ~AuthorizationError(res')
          ELSE AuthorizationError(res') /\ apps' = apps]_vars

\* An actor who holds applications:update but is neither admin nor
\* underwriter was refused the assignment of a submitted application.
C8_Witness ==
    /\ res.op = "assign"
    /\ AuthorizationError(res)
    /\ role(res.actor) \notin {"admin", "underwriter"}
    /\ hasPermission(res.actor, "applications", "update")
    /\ Addressed(res)
    /\ apps[res.app].exists
    /\ apps[res.app].status = "submitted"
    /\ apps[res.app].assignedTo = NoUser

\* C9: the audit trail of a stored application after any operation is the
\* trail before it followed by zero or more new entries.
C9_AuditAppendOnly ==
    [][\A a \in AppIds :
          apps[a].exists
             => IsPrefix(apps[a].auditTrail, apps'[a].auditTrail)]_vars

\* The operation performed last changed the stored application a.
Mutated(a) ==
    \/ res'.op \in {"create", "update", "submit", "assign", "notes",
                    "documents", "analyze"}
          /\ res'.app = a /\ res'.code \in {200, 201}
    \/ res'.op = "batch" /\ res'.code = 200 /\ apps'[a] # apps[a]

\* C10: every successful mutating operation on an application makes its
\* audit trail exactly one entry longer, and the new entry names the actor.
C10_OneEntryPerMutation ==
    [][\A a \in AppIds :
          Mutated(a) =>
             /\ Len(apps'[a].auditTrail) = Len(apps[a].auditTrail) + 1
             /\ Last(apps'[a].auditTrail).performedBy = res'.actor]_vars

\* C11: after every operation, completedAt of a stored application is set if
\* and only if its status is approved, denied or withdrawn; it is set by the
\* operation that enters the terminal status, and once set it keeps its
\* value.
C11_CompletedIffTerminal ==
    [][\A a \in AppIds :
          apps'[a].exists =>
             /\ (apps'[a].completedAt # NoDate)
                   <=> (apps'[a].status \in Terminal)
             /\ (apps[a].exists /\ apps[a].completedAt # NoDate)
                   => apps'[a].completedAt = apps[a].completedAt]_vars

\* The stored document after a request ran alone on the stored document doc.
Alone(req, doc) ==
    IF Allowed(req) /\ Handle(req, doc).code = 200
    THEN preSave(Handle(req, doc).doc, now)
    ELSE doc

\* C12: when two overlapping requests on one application have both
\* finished, the stored application is what running the two one after the
\* other, in one of the two orders, would have stored.
C12_Serializable ==
    (/\ inflight # NoRequests
     /\ \A i \in DOMAIN inflight : inflight[i].pc = "done")
       => \/ apps[SharedApp] =
                Alone(inflight[2].req, Alone(inflight[1].req, DraftApp))
          \/ apps[SharedApp] =
                Alone(inflight[1].req, Alone(inflight[2].req, DraftApp))

\* The audit action that each operation records.
AuditAction ==
    [create    |-> "application_created",
     update    |-> "application_updated",
     submit    |-> "application_submitted",
     documents |-> "documents_uploaded",
     assign    |-> "application_assigned",
     notes     |-> "review_note_added",
     analyze   |-> "ai_analysis_completed",
     batch     |-> "ai_batch_analysis"]

\* The field changes of operation r are present in post, given pre.
MutationApplied(r, pre, post) ==
    CASE r.op = "create" ->
            ~pre.exists /\ post.exists /\ post.applicationId # NoId
      [] r.op = "update" ->
            \E body \in UpdateBodies :
               [post EXCEPT !.auditTrail = <<>>, !.completedAt = NoDate] =
               [ObjectAssign(pre, body) EXCEPT !.auditTrail = <<>>,
                                               !.completedAt = NoDate]
      [] r.op = "submit" ->
            post.status = "submitted" /\ post.submittedAt # NoDate
      [] r.op = "documents" -> post.documents > pre.documents
      [] r.op = "assign" ->
            /\ post.status = "under_review"
            /\ post.assignedTo # NoUser
            /\ post.assignedAt # NoDate
      [] r.op = "notes" -> post.reviewNotes = pre.reviewNotes + 1
      [] r.op \in {"analyze", "batch"} ->
            post.aiAssessment = fullAssessment(r.actor)
      [] OTHER -> FALSE

\* C13: after every operation each stored application either is exactly as
\* before, or carries both the field changes of the operation and, as the
\* last entry of its audit trail, the audit entry of the operation; an
\* operation whose save fails (500) leaves every application as before.
C13_MutationWithAudit ==
    [][/\ \A a \in AppIds :
             \/ apps'[a] = apps[a]
             \/ /\ res'.code \in {200, 201}
                /\ MutationApplied(res', apps[a], apps'[a])
                /\ apps'[a].auditTrail # <<>>
                /\ Last(apps'[a].auditTrail) =
                      [action |-> AuditAction[res'.op],
                       performedBy |-> res'.actor]
       /\ res'.code = 500 => apps' = apps]_vars

\* A submit that passed the permission and the draft check met a store
\* that was down: it was answered 500 and the application is still the
\* draft it was, with the creation entry only.
C13_Witness ==
    /\ res.op = "submit"
    /\ res.code = 500
    /\ ~storageUp
    /\ hasPermission(res.actor, "applications", "update")
    /\ apps[res.app].exists
    /\ apps[res.app].status = "draft"
    /\ apps[res.app].submittedAt = NoDate
    /\ Len(apps[res.app].auditTrail) = 1

\* The request that stands for the withdraw action: the router has no
\* withdraw route, and an update whose body sets the status is the one
\* request that stores withdrawn.
WithdrawBody ==
    [status |-> "withdrawn", hasAuditTrail |-> FALSE, auditTrail |-> <<>>,
     loanAmount |-> 0, applicationId |-> Absent]

\* C14: a withdraw by an actor holding applications:update on a stored
\* application with a non-terminal status succeeds, stores withdrawn, sets
\* completedAt and appends one audit entry; on an approved, denied or
\* withdrawn application it is rejected and changes nothing.
C14_WithdrawFromNonTerminal ==
    [][\A u \in Actors, a \in AppIds :
          (/\ apps[a].exists
           /\ hasPermission(u, "applications", "update")
           /\ UpdateApplication(u, a, WithdrawBody))
             => IF apps[a].status \notin Terminal
                THEN /\ res'.code = 200
                     /\ apps'[a].status = "withdrawn"
                     /\ apps'[a].completedAt # NoDate
                     /\ Len(apps'[a].auditTrail) =
                           Len(apps[a].auditTrail) + 1
                ELSE /\ res'.code = 400
                     /\ apps' = apps]_vars

\* C15: every application stored by a create has the status draft, whatever
\* the request body carried, and an audit trail of exactly one entry,
\* application_created.
C15_CreatedAsDraft ==
    [][(res'.op = "create" /\ res'.code = 201) =>
          /\ apps'[res'.app].status = "draft"
          /\ apps'[res'.app].auditTrail =
                <<[action |-> "application_created",
                   performedBy |-> res'.actor]>>]_vars

\* C16: no operation changes the applicationId of a stored application.
C16_ApplicationIdImmutable ==
    [][\A a \in AppIds :
          apps[a].exists
             => apps'[a].applicationId = apps[a].applicationId]_vars

\* The action on applications that the route of each operation requires.
Required ==
    [create    |-> "create",
     update    |-> "update",
     submit    |-> "update",
     documents |-> "update",
     notes     |-> "update",
     analyze   |-> "read"]

\* The grant list of an actor, one grant per resource.
Grants(u) ==
    {[resource |-> r, actions |-> permissions(u)[r]] :
        r \in DOMAIN permissions(u)}

\* Some grant of the actor has the resource and contains the action.
Granted(u, resource, action) ==
    \E grant \in Grants(u) :
       grant.resource = resource /\ action \in grant.actions

\* C17: the handler of a permission-gated route runs if and only if some
\* grant of the actor has the required resource and contains the required
\* action; otherwise the request is answered with the authorization error
\* and no application changes.
C17_HandlerIffGranted ==
    [][res'.op \in DOMAIN Required =>
          IF Granted(res'.actor, "applications", Required[res'.op])
          THEN ~AuthorizationError(res')
          ELSE AuthorizationError(res') /\ apps' = apps]_vars

\* An actor who has a grant on applications that does not contain update
\* was refused the update of a stored application.
C17_Witness ==
    /\ res.op = "update"
    /\ AuthorizationError(res)
    /\ \E grant \in Grants(res.actor) :
          grant.resource = "applications" /\ grant.actions # {}
    /\ ~Granted(res.actor, "applications", "update")
    /\ Addressed(res)
    /\ apps[res.app].exists

AllActions == {"create", "read", "update", "delete", "approve"}

InUnitInterval(q) == 0 <= q.num /\ q.num <= q.den

\* C19: feature extraction returns twelve entries, each in [0,1], for every
\* applicant data, values above the normalisation constants included.
C19_FeaturesInUnitInterval ==
    call.fn = "preprocessFeatures" =>
       /\ Len(call.features) = 12
       /\ \A i \in 1..Len(call.features) : InUnitInterval(call.features[i])

\* The inputs of the extractor in the order of the features, with the
\* default stated for each (ratios in hundredths).
StatedDefaults ==
    <<[field |-> "creditScore",         default |-> 600],
      [field |-> "annualIncome",        default |-> 50000],
      [field |-> "debtToIncomeRatio",   default |-> 30],
      [field |-> "employmentLength",    default |-> 2],
      [field |-> "loanAmount",          default |-> 50000],
      [field |-> "loanTerm",            default |-> 15],
      [field |-> "paymentHistoryScore", default |-> 80],
      [field |-> "creditUtilization",   default |-> 30],
      [field |-> "numberOfAccounts",    default |-> 5],
      [field |-> "recentInquiries",     default |-> 2],
      [field |-> "collateralValue",     default |-> 0]>>

\* The score of each known loan purpose.
StatedPurposeScores ==
    [home_purchase |-> 9, home_improvement |-> 8, education |-> 8,
     auto_loan |-> 7, medical |-> 7, debt_consolidation |-> 6,
     business |-> 5, other |-> 5, vacation |-> 3]

\* C20: every numeric feature is computed from the supplied value, a
\* supplied 0 included, and from the stated default exactly when the input
\* is absent; the purpose feature is the table score of the purpose, and 5
\* for an unknown or absent purpose.
C20_DefaultOnlyWhenAbsent ==
    call.fn = "preprocessFeatures" =>
       /\ \A i \in 1..Len(StatedDefaults) :
             LET given == call.data[StatedDefaults[i].field]
             IN call.features[i].num =
                   IF given = Missing
                   THEN StatedDefaults[i].default ELSE given
       /\ call.features[12].num =
             IF call.data.loanPurpose \in DOMAIN StatedPurposeScores
             THEN StatedPurposeScores[call.data.loanPurpose] ELSE 5

\* The call recorded last is a scoring that returned an assessment.
Scored == call.fn = "predictCreditScore" /\ ~call.thrown

\* C21: every scoring that succeeds, in either engine and for every value
\* of the random perturbation, returns a probability in [0,1] and an integer
\* creditScore in [300,850] that is the probability mapped linearly onto
\* [300,850] and rounded.
C21_ScoreInRange ==
    Scored =>
       /\ call.result.probability \in Probabilities
       /\ call.result.creditScore \in 300..850
       /\ call.result.creditScore =
             Round(call.result.probability * (850 - 300) + 300 * ProbSteps,
                   ProbSteps)

\* C22: in every assessment the risk level is LOW when creditScore >= 750,
\* MEDIUM when 650 <= creditScore < 750, HIGH when 550 <= creditScore < 650
\* and VERY_HIGH when creditScore < 550.
C22_RiskBands ==
    Scored =>
       LET creditScore == call.result.creditScore
           riskLevel == call.result.riskLevel
       IN /\ (riskLevel = "LOW") <=> (creditScore >= 750)
          /\ (riskLevel = "MEDIUM")
                <=> (650 <= creditScore /\ creditScore < 750)
          /\ (riskLevel = "HIGH")
                <=> (550 <= creditScore /\ creditScore < 650)
          /\ (riskLevel = "VERY_HIGH") <=> (creditScore < 550)

\* Assessments exactly on the three band limits.
C22_Witness ==
    /\ Scored
    /\ call.engine = "demo"
    /\ call.result.creditScore = 650
    /\ call.result.riskLevel = "MEDIUM"

\* The number of entries of a list that satisfy the test on field f.
Count(list, f, v) == Cardinality({i \in 1..Len(list) : list[i][f] = v})

\* C23: the recommendations hold REQUEST_COSIGNER, with priority HIGH, iff
\* creditScore < 650; REDUCE_LOAN_AMOUNT, with priority MEDIUM, iff the
\* debt-to-income ratio given is above 0.4; APPROVE_STANDARD, with priority
\* LOW, iff creditScore >= 750; each at most once, independently.
C23_Recommendations ==
    Scored =>
       LET recs == call.result.recommendations
           Has(action, priority) ==
              \E i \in 1..Len(recs) :
                 recs[i].action = action /\ recs[i].priority = priority
       IN /\ Has("REQUEST_COSIGNER", "HIGH")
                <=> (call.result.creditScore < 650)
          /\ Has("REDUCE_LOAN_AMOUNT", "MEDIUM")
                <=> (call.data.debtToIncomeRatio # Missing
                       /\ call.data.debtToIncomeRatio > 40)
          /\ Has("APPROVE_STANDARD", "LOW")
                <=> (call.result.creditScore >= 750)
          /\ \A action \in {"REQUEST_COSIGNER", "REDUCE_LOAN_AMOUNT",
                              "APPROVE_STANDARD"} :
                Count(recs, "action", action) <= 1
          /\ Len(recs) <= 3

\* A low score with a high debt-to-income ratio: two recommendations.
C23_Witness ==
    /\ Scored
    /\ call.result.creditScore < 650
    /\ call.data.debtToIncomeRatio = 45
    /\ Len(call.result.recommendations) = 2

\* C24: the factors hold exactly one record per crossed threshold and no
\* other: Credit Score (negative) iff feature 0 < 0.6, Income (positive) iff
\* feature 1 > 0.8, Debt-to-Income (negative) iff feature 2 > 0.4, Payment
\* History (positive) iff feature 6 > 0.9, Credit Utilization (negative) iff
\* feature 7 > 0.7; a feature equal to its threshold gives no factor.
C24_Factors ==
    Scored =>
       LET factors == call.result.factors
           features == preprocessFeatures(call.data)
           Crossed ==
              [f \in {"Credit Score", "Income", "Debt-to-Income",
                       "Payment History", "Credit Utilization"} |->
                 CASE f = "Credit Score" ->
                         10 * features[1].num < 6 * features[1].den
                   [] f = "Income" ->
                         10 * features[2].num > 8 * features[2].den
                   [] f = "Debt-to-Income" ->
                         10 * features[3].num > 4 * features[3].den
                   [] f = "Payment History" ->
                         10 * features[7].num > 9 * features[7].den
                   [] OTHER ->
                         10 * features[8].num > 7 * features[8].den]
           Impact ==
              [f \in DOMAIN Crossed |->
                 IF f \in {"Income", "Payment History"}
                 THEN "POSITIVE" ELSE "NEGATIVE"]
       IN /\ \A f \in DOMAIN Crossed :
                Count(factors, "factor", f) = IF Crossed[f] THEN 1 ELSE 0
          /\ \A i \in 1..Len(factors) :
                /\ factors[i].factor \in DOMAIN Crossed
                /\ factors[i].impact = Impact[factors[i].factor]

\* A credit score of 480 (feature 0 exactly 0.6) gives no Credit Score
\* factor while an income of 250000 gives the Income factor.
C24_Witness ==
    /\ Scored
    /\ call.data.creditScore = 480
    /\ call.data.annualIncome = 250000
    /\ Count(call.result.factors, "factor", "Credit Score") = 0
    /\ Count(call.result.factors, "factor", "Income") = 1

\* The call recorded last is a fraud evaluation.
FraudEvaluated == call.fn = "evaluateFraudRisk"

\* C25: fraudScore is the sum of the points of the rules whose conditions
\* hold (30 for income above 200000 with employment shorter than a year, 10
\* for less than 6 at the address, 20 for age below 21 with a credit score
\* above 750, 15 for more than 5 recent inquiries), each counted once and
\* independently; riskFactors has one entry per rule that fired; a rule with
\* an absent input does not fire.
C25_FraudScoreIsSum ==
    FraudEvaluated =>
       LET d == call.data
           Has(f) == d[f] # Missing
           income == Has("annualIncome") /\ Has("employmentLength")
                        /\ d.annualIncome > 200000
                        /\ d.employmentLength < 10
           address == Has("timeAtAddress") /\ d.timeAtAddress < 6
           identity == Has("age") /\ Has("creditScore")
                          /\ d.age < 21 /\ d.creditScore > 750
           velocity == Has("recentInquiries") /\ d.recentInquiries > 5
           Points(fired, points) == IF fired THEN points ELSE 0
           Entries(fired, text) ==
              Cardinality({i \in 1..Len(call.result.riskFactors) :
                              call.result.riskFactors[i] = text})
                 = IF fired THEN 1 ELSE 0
       IN /\ call.result.fraudScore =
                Points(income, 30) + Points(address, 10)
                   + Points(identity, 20) + Points(velocity, 15)
          /\ Entries(income, "High income with short employment history")
          /\ Entries(address, "Recently moved to current address")
          /\ Entries(identity, "High credit score at young age")
          /\ Entries(velocity, "Multiple recent credit inquiries")
          /\ Len(call.result.riskFactors) =
                Points(income, 1) + Points(address, 1)
                   + Points(identity, 1) + Points(velocity, 1)

\* All four rules fire on one applicant; the score is 75.
C25_Witness ==
    /\ FraudEvaluated
    /\ call.result.fraudScore = 75
    /\ Len(call.result.riskFactors) = 4

\* C26: the fraud risk level is HIGH when fraudScore > 50, MEDIUM when
\* 25 < fraudScore <= 50 and LOW otherwise; the recommendation is
\* MANUAL_REVIEW exactly when fraudScore > 50 and AUTOMATED_PROCESSING
\* otherwise; income 250000 with half a year of employment and 6 recent
\* inquiries gives 45, MEDIUM, AUTOMATED_PROCESSING.
C26_FraudBands ==
    FraudEvaluated =>
       LET r == call.result
           d == call.data
       IN /\ r.riskLevel =
                IF r.fraudScore > 50 THEN "HIGH"
                ELSE IF 25 < r.fraudScore /\ r.fraudScore <= 50
                THEN "MEDIUM" ELSE "LOW"
          /\ (r.recommendation = "MANUAL_REVIEW") <=> (r.fraudScore > 50)
          /\ (r.recommendation = "AUTOMATED_PROCESSING")
                <=> (r.fraudScore <= 50)
          /\ (/\ d.annualIncome = 250000
              /\ d.employmentLength = 5
              /\ d.recentInquiries = 6
              /\ d.timeAtAddress \in {Missing, 6}
              /\ d.age \in {Missing, 21})
             => /\ r.fraudScore = 45
                /\ r.riskLevel = "MEDIUM"
                /\ r.recommendation = "AUTOMATED_PROCESSING"

\* A score of exactly 50 (income rule and identity rule) is MEDIUM and is
\* processed automatically.
C26_Witness ==
    /\ FraudEvaluated
    /\ call.result.fraudScore = 50
    /\ call.result.riskLevel = "MEDIUM"
    /\ call.result.recommendation = "AUTOMATED_PROCESSING"

\* The members of a list, as a set.
Members(list) == {list[i] : i \in 1..Len(list)}

\* The last request was a batch analysis that ran its loop.
BatchRan == res.op = "batch" /\ call.fn = "batch-analyze" /\ call.code = 200

\* C27: a batch analysis that ran reports every selected application in
\* exactly one of results and errors, whatever failed for the others, and
\* the two lists together have as many entries as applications selected.
C27_BatchAccountsForAll ==
    BatchRan =>
       /\ Members(call.results) \cup Members(call.errors)
             = Members(call.found)
       /\ Members(call.results) \cap Members(call.errors) = {}
       /\ Len(call.results) = Cardinality(Members(call.results))
       /\ Len(call.errors) = Cardinality(Members(call.errors))
       /\ Len(call.results) + Len(call.errors) = Len(call.found)
       /\ call.summary.successful + call.summary.failed = call.summary.total
       /\ \A a \in Members(call.results) :
             /\ apps[a].aiAssessment # NoAssessment
             /\ Last(apps[a].auditTrail).action = "ai_batch_analysis"

\* The first application of a batch of two failed and the second one was
\* still analysed.
C27_Witness ==
    /\ BatchRan
    /\ call.found = BatchOrder
    /\ call.errors = <<BatchOrder[1]>>
    /\ call.results = <<BatchOrder[2]>>

\* The response of the analyze route while the engine is not available.
ScoringUnavailableError(r) == r.code = 503

\* C28: while the engine is not initialized no analysis changes a stored
\* application; a single analysis that is permitted, well formed and
\* addressed to an existing application (or carrying its own data) is
\* answered with the scoring-unavailable error, and a batch reports every
\* selected application in its errors and none in its results.
C28_UnavailableWhileNotLoaded ==
    [][~isModelLoaded =>
          /\ res'.op \in {"analyze", "batch"} => apps' = apps
          /\ \A u \in Actors, a \in AppIds, body \in AnalyzeBodies :
                Analyze(u, a, body) =>
                   /\ res'.code # 200
                   /\ (/\ checkPermission(u, "applications", "read")
                       /\ body # "empty"
                       /\ body = "applicationId" => apps[a].exists)
                      => ScoringUnavailableError(res')
          /\ (res'.op = "batch" /\ call'.code = 200) =>
                /\ call'.results = <<>>
                /\ call'.errors = call'.found]_vars

\* An analysis of a stored application was refused because the engine is
\* not initialized.
C28_Witness ==
    /\ ~isModelLoaded
    /\ res.op = "analyze"
    /\ res.app \in AppIds
    /\ ScoringUnavailableError(res)
    /\ apps[res.app].exists
    /\ apps[res.app].aiAssessment = NoAssessment

\* A batch of two applications ran while the engine was not initialized.
C28_BatchWitness ==
    /\ ~isModelLoaded
    /\ BatchRan
    /\ call.errors = BatchOrder

\* The number of requests of a key admitted later than windowStart.
AdmittedAfter(key, windowStart) == Len(After(admitted[key], windowStart))

\* C29: for every key and at every instant at most maxAttempts requests
\* were admitted during the preceding window; a request that finds
\* maxAttempts admitted timestamps in the window is answered 429 and its
\* handler is not invoked; every check of a key discards the timestamps of
\* that key that are older than the window.
C29_WindowNeverExceeded ==
    /\ [](\A key \in Keys :
             AdmittedAfter(key, now - WindowMs) <= maxAttempts)
    /\ [][\A key \in Keys :
             sensitiveRateLimit(key) =>
                /\ (AdmittedAfter(key, now - WindowMs) >= maxAttempts)
                      => /\ res'.code = 429
                         /\ admitted' = admitted
                /\ (AdmittedAfter(key, now - WindowMs) < maxAttempts)
                      => /\ res'.code = 200
                         /\ admitted'[key] = Append(admitted[key], now)
                /\ \A i \in 1..Len(attempts'[key]) :
                      attempts'[key][i] > now - WindowMs
                /\ \A other \in Keys \ {key} :
                      attempts'[other] = attempts[other]]_vars

\* A key was refused with a full window, and admitted again once its
\* timestamps had left the window.
C29_Witness ==
    \E key \in Keys :
       /\ Len(admitted[key]) > maxAttempts
       /\ res = Response("profile", key, NoTarget, 200)
       /\ Len(attempts[key]) = 1

\* The wrong-password requests for account n that were answered after
\* passing the locked and active tests.
FailedLogins(n) ==
    {i \in DOMAIN inflight :
        /\ inflight[i].pc = "done"
        /\ inflight[i].req.username = n
        /\ inflight[i].req.password = "wrong"}

\* C30: for an active, unlocked account, and as long as no login with the
\* right password has been answered, the failed-attempt counter equals the
\* number of wrong-password logins answered for the account, however the
\* requests interleave.
C30_FailedLoginsAllCounted ==
    \A n \in Accounts :
       (/\ users[n].isActive
        /\ ~users[n].locked
        /\ \A i \in DOMAIN inflight :
              inflight[i].req.password = "right" => inflight[i].pc # "done")
          => users[n].loginAttempts = Cardinality(FailedLogins(n))

\* Every request in flight loaded the account with the counter at 0, gave
\* a wrong password and has been answered: the counter is their number.
C30_Witness ==
    \E n \in Accounts :
       /\ FailedLogins(n) = DOMAIN inflight
       /\ \A i \in DOMAIN inflight : inflight[i].doc.loginAttempts = 0
       /\ users[n].loginAttempts = MaxLogins

\* C31: a request of an actor whose only grant on applications is read
\* changes no stored application.
C31_ReadOnlyActorChangesNothing ==
    [][(/\ res'.actor \in Actors
        /\ permissions(res'.actor).applications = {"read"}
        /\ role(res'.actor) \notin {"admin", "underwriter"})
          => apps' = apps]_vars

\* C32: the audit trail of every stored application starts with its only
\* application_created entry and holds at most one application_submitted
\* entry.
C32_CreatedFirstSubmittedOnce ==
    \A a \in AppIds :
       apps[a].exists =>
          /\ apps[a].auditTrail # <<>>
          /\ apps[a].auditTrail[1].action = "application_created"
          /\ Count(apps[a].auditTrail, "action", "application_created") = 1
          /\ Count(apps[a].auditTrail, "action", "application_submitted") <= 1

\* The token verifies and names a stored user that is active and not
\* locked.
Admissible(token) ==
    /\ token.present
    /\ token.verified
    /\ token.id \in DOMAIN users
    /\ users[token.id].isActive
    /\ ~users[token.id].locked

\* C33: each of protect, verifyRefreshToken and optionalAuth sets the actor
\* of the request, to the user of the token, only when the token verifies
\* and the user is stored, active and not locked; otherwise protect and
\* verifyRefreshToken answer 401 without calling next(), and optionalAuth
\* calls next() with no actor and answers nothing.
C33_OnlyActiveUnlockedAdmitted ==
    call.fn \in {"protect", "verifyRefreshToken", "optionalAuth"} =>
       IF Admissible(call.token)
       THEN call = Passed(call.fn, call.token, call.token.id)
       ELSE IF call.fn = "optionalAuth"
       THEN call = Passed(call.fn, call.token, NoUser)
       ELSE call = Denied(call.fn, call.token)

\* Request i is answered by the step.
Answered(i) == inflight[i].pc # "done" /\ inflight'[i].pc = "done"

\* C34: a login on a locked account is answered 401 before the password is
\* compared and leaves the account as it was; a wrong password on an
\* unlocked active account adds one to the failed-attempt counter and gets
\* no token; a right password on an unlocked active account sets to 0 a
\* counter that the request read above 0, records lastLogin and gets a
\* token; no other path of login issues a token.
C34_LoginBookkeeping ==
    [][\A i \in DOMAIN inflight :
          Answered(i) =>
             LET n == inflight[i].req.username
                 password == inflight[i].req.password
                 loaded == inflight[i].doc
                 answer == inflight'[i]
             IN /\ (n \in Accounts /\ inflight[i].pc = "arrived"
                       /\ users[n].locked)
                      => /\ answer.code = 401
                         /\ ~answer.token
                         /\ users' = users
                /\ (inflight[i].pc = "compared" /\ password = "wrong")
                      => /\ loaded.isActive /\ ~loaded.locked
                         /\ users'[n].loginAttempts
                               = users[n].loginAttempts + 1
                         /\ answer.code = 401
                         /\ ~answer.token
                /\ (inflight[i].pc = "compared" /\ password = "right")
                      => /\ loaded.isActive /\ ~loaded.locked
                         /\ users'[n].loginAttempts =
                               IF loaded.loginAttempts > 0
                               THEN 0 ELSE users[n].loginAttempts
                         /\ users'[n].lastLogin = now
                         /\ answer.code = 200
                         /\ answer.token
                /\ answer.token
                      => /\ inflight[i].pc = "compared"
                         /\ password = "right"
                /\ inflight[i].pc = "arrived" => users' = users]_vars

\* A login with the right password found the counter above 0, reset it
\* and received a token.
C34_Witness ==
    \E i \in DOMAIN inflight, n \in Accounts :
       /\ inflight[i].pc = "done"
       /\ inflight[i].token
       /\ inflight[i].doc.loginAttempts > 0
       /\ users[n].loginAttempts = 0
       /\ users[n].lastLogin # NoDate

\* A request with the key would be rejected now.
Blocked(key) == Len(After(attempts[key], now - WindowMs)) >= maxAttempts

\* C35: a rejected request records nothing, so it leaves the timestamps of
\* its key that are in the window as they were; a request that finds every
\* recorded timestamp of its key a full window old is admitted; a request
\* never changes whether another key is blocked; and a blocked key is
\* unblocked once a window has passed, whatever is requested meanwhile.
C35_LimiterRecovers ==
    /\ [][\A key \in Keys :
             sensitiveRateLimit(key) =>
                /\ res'.code = 429 =>
                      /\ attempts'[key]
                            = After(attempts[key], now - WindowMs)
                      /\ admitted' = admitted
                /\ (\A i \in 1..Len(attempts[key]) :
                       attempts[key][i] + WindowMs <= now)
                      => /\ res'.code = 200
                         /\ attempts'[key] = <<now>>
                /\ \A other \in Keys \ {key} :
                      /\ attempts'[other] = attempts[other]
                      /\ admitted'[other] = admitted[other]
                      /\ Blocked(other)' = Blocked(other)]_vars
    /\ \A key \in Keys :
          (Blocked(key) /\ now + WindowMs <= MaxClock) ~> ~Blocked(key)

\* A key is admitted again exactly one window after the requests that
\* filled its window, while another key is blocked.
C35_Witness ==
    \E key \in Keys, other \in Keys :
       /\ other # key
       /\ Blocked(other)
       /\ res = Response("profile", key, NoTarget, 200)
       /\ attempts[key] = <<now>>
       /\ Len(admitted[key]) = maxAttempts + 1
       /\ \A i \in 1..maxAttempts : admitted[key][i] + WindowMs = now

\* The step is a call of predictCreditScore.
Predicts == call'.fn = "predictCreditScore" /\ res' = res

\* C36: in both engine classes, isModelLoaded is false when dispose()
\* returns; predictCreditScore returns an assessment only when the last
\* life-cycle call was a completed initializeModel, and throws from a
\* dispose until the next initializeModel.
C36_EngineLifecycle ==
    /\ [][dispose => ~isModelLoaded']_vars
    /\ [][Predicts =>
            /\ ~call'.thrown => res.op = "initializeModel"
            /\ res.op = "dispose" => call'.thrown]_vars

\* The last call analysed a stored application.
Analysed == call.fn = "analyze" /\ call.code = 200

\* C37: when a stored application is analysed, the employment length, the
\* recent inquiries, the credit score and the annual income that enter the
\* feature vector are the values that the fraud rules test, also when the
\* employment length or the recent inquiries were never recorded; and an
\* employment length that was never recorded does not fire the rule on
\* high income with short employment.
C37_SharedInputsAgree ==
    Analysed =>
       LET application == call.application
           data == call.data
           features == call.features
           Recorded(f) == application[f] # Missing /\ application[f] # 0
       IN /\ (Recorded("employmentLength")
                 \/ application.employmentLength = Missing)
                => features[4].num = data.employmentLength
          /\ (Recorded("recentInquiries")
                 \/ application.recentInquiries = Missing)
                => features[10].num = data.recentInquiries
          /\ Recorded("creditScore") => features[1].num = data.creditScore
          /\ Recorded("annualIncome") => features[2].num = data.annualIncome
          /\ application.employmentLength = Missing
                => \A i \in 1..Len(call.fraudAssessment.riskFactors) :
                      call.fraudAssessment.riskFactors[i]
                         # "High income with short employment history"

\* C38: in every assessment APPROVE_STANDARD is recommended iff the risk
\* level is LOW, REQUEST_COSIGNER iff the risk level is HIGH or VERY_HIGH,
\* never both, and the negative Debt-to-Income factor comes with the
\* REDUCE_LOAN_AMOUNT recommendation.
C38_OutputsConsistent ==
    Scored =>
       LET r == call.result
           Recommends(action) ==
              Count(r.recommendations, "action", action) > 0
       IN /\ Recommends("APPROVE_STANDARD") <=> (r.riskLevel = "LOW")
          /\ Recommends("REQUEST_COSIGNER")
                <=> (r.riskLevel \in {"HIGH", "VERY_HIGH"})
          /\ ~(Recommends("APPROVE_STANDARD")
                  /\ Recommends("REQUEST_COSIGNER"))
          /\ (\E i \in 1..Len(r.factors) :
                 /\ r.factors[i].factor = "Debt-to-Income"
                 /\ r.factors[i].impact = "NEGATIVE")
                => Recommends("REDUCE_LOAN_AMOUNT")

\* A LOW assessment with a high debt-to-income ratio: the factor, the
\* reduction and the standard approval together.
C38_Witness ==
    /\ Scored
    /\ call.result.riskLevel = "LOW"
    /\ Count(call.result.factors, "factor", "Debt-to-Income") = 1
    /\ Count(call.result.recommendations, "action", "REDUCE_LOAN_AMOUNT") = 1
    /\ Count(call.result.recommendations, "action", "APPROVE_STANDARD") = 1

====
